---- MODULE Spec2Model ----
(***************************************************************************)
(* A model of the embed template engine of the bot: lib/builder.py          *)
(* (Builder.parse, Builder.mapping, Builder.replace_placeholders,           *)
(* Builder.create), the welcome/goodbye command groups that store and       *)
(* deliver the templates, and the bot's command error handler.              *)
(*                                                                         *)
(* Python strings are sequences of one-character strings; Python values    *)
(* are tagged records (PyStr, PyInt, PyNone, PyDict, PyList).              *)
(***************************************************************************)
EXTENDS Integers, Sequences, FiniteSets, TLC

VARIABLES pc, flags, builder, raised, result, text, mappings, args, store, cmd, reply

vars == <<pc, flags, builder, raised, result, text, mappings, args, store, cmd, reply>>

(***************************************************************************)
(* Bounds of the model.                                                    *)
(***************************************************************************)
\* the longest flag string of the parser's inputs, in pieces of FlagPieces
MaxFlagPieces == 3
\* the longest value of a color segment, in pieces of ColorPieces
MaxColorPieces == 3
\* the levels and xp counts handed to mapping are -MaxLevel..MaxLevel
MaxLevel == 2
\* the longest text handed to replace_placeholders, in pieces of TextPieces
MaxTextPieces == 3

(***************************************************************************)
(* Python values.                                                          *)
(***************************************************************************)
Chars(s) == [i \in 1..Len(s) |-> SubSeq(s, i, i)]

PyNone == [t |-> "none", n |-> 0, s |-> <<>>, items |-> <<>>]

PyInt(n) == [t |-> "int", n |-> n, s |-> <<>>, items |-> <<>>]

PyStr(s) == [t |-> "str", n |-> 0, s |-> s, items |-> <<>>]

\* a dict is the sequence of its items in insertion order
PyDict(items) == [t |-> "dict", n |-> 0, s |-> <<>>, items |-> items]

\* a list is the sequence of its elements, each an item with an empty key
PyList(items) == [t |-> "list", n |-> 0, s |-> <<>>, items |-> items]

Item(k, v) == [k |-> k, v |-> v]

\* Python's truth value of an object: None, 0, "" and empty containers are
\* false, an object without __bool__ and a fetched row (a 3-tuple) are true
Truthy(x) ==
    CASE x.t = "none" -> FALSE
      [] x.t \in {"object", "row"} -> TRUE
      [] x.t = "int" -> x.n # 0
      [] x.t = "str" -> x.s # <<>>
      [] OTHER -> x.items # <<>>

(***************************************************************************)
(* Python string methods, as the calls of builder.py use them.             *)
(***************************************************************************)
Whitespace == {" ", "\t", "\n", "\r"}

UpperCase == Chars("ABCDEFGHIJKLMNOPQRSTUVWXYZ")

LowerCase == Chars("abcdefghijklmnopqrstuvwxyz")

\* str.lower() of one character
lower_char(c) ==
    IF \E i \in 1..26 : UpperCase[i] = c
    THEN LowerCase[CHOOSE i \in 1..26 : UpperCase[i] = c]
    ELSE c

\* str.lower()
lower(s) == [i \in 1..Len(s) |-> lower_char(s[i])]

RECURSIVE lstrip_chars(_, _)
\* str.lstrip(chars): drops every leading character that is in chars
lstrip_chars(s, chars) ==
    IF s # <<>> /\ Head(s) \in chars THEN lstrip_chars(Tail(s), chars) ELSE s

RECURSIVE rstrip_chars(_, _)
\* str.rstrip(chars): drops every trailing character that is in chars
rstrip_chars(s, chars) ==
    IF s # <<>> /\ s[Len(s)] \in chars
    THEN rstrip_chars(SubSeq(s, 1, Len(s) - 1), chars)
    ELSE s

\* str.strip(chars)
strip_chars(s, chars) == rstrip_chars(lstrip_chars(s, chars), chars)

\* str.strip(): whitespace off both ends
strip(s) == strip_chars(s, Whitespace)

\* whether sub occurs in s at index i (1-based)
MatchAt(s, sub, i) ==
    /\ i >= 1
    /\ i + Len(sub) - 1 <= Len(s)
    /\ SubSeq(s, i, i + Len(sub) - 1) = sub

RECURSIVE split_from(_, _, _, _)
\* the scan of str.split(sep) from index i, cur being the part collected so far
split_from(s, sep, i, cur) ==
    IF i > Len(s) THEN <<cur>>
    ELSE IF MatchAt(s, sep, i)
         THEN <<cur>> \o split_from(s, sep, i + Len(sep), <<>>)
         ELSE split_from(s, sep, i + 1, Append(cur, s[i]))

\* str.split(sep): the parts between the non-overlapping occurrences of sep,
\* found left to right, empty parts included
split(s, sep) == split_from(s, sep, 1, <<>>)

\* str.partition in place of str.split(sep, 1): two parts even without sep
split_once_partition(s, sep) ==
    IF \E i \in 1..Len(s) : MatchAt(s, sep, i)
    THEN LET i == CHOOSE j \in 1..Len(s) :
                      MatchAt(s, sep, j) /\ \A k \in 1..(j - 1) : ~MatchAt(s, sep, k)
         IN <<SubSeq(s, 1, i - 1), SubSeq(s, i + Len(sep), Len(s))>>
    ELSE <<s, <<>>>>

\* str.split(sep, 1): at most one split, at the first occurrence of sep
split_once(s, sep) ==
    IF \E i \in 1..Len(s) : MatchAt(s, sep, i)
    THEN LET i == CHOOSE j \in 1..Len(s) :
                      MatchAt(s, sep, j) /\ \A k \in 1..(j - 1) : ~MatchAt(s, sep, k)
         IN <<SubSeq(s, 1, i - 1), SubSeq(s, i + Len(sep), Len(s))>>
    ELSE <<s>>

RECURSIVE replace(_, _, _)
\* str.replace(old, new), old non-empty: every non-overlapping occurrence of
\* old, found left to right, becomes new
replace(s, old, new) ==
    IF s = <<>> THEN <<>>
    ELSE IF MatchAt(s, old, 1)
         THEN new \o replace(SubSeq(s, Len(old) + 1, Len(s)), old, new)
         ELSE <<Head(s)>> \o replace(Tail(s), old, new)

Digits == Chars("0123456789")

RECURSIVE str_nat(_)
\* the decimal digits of a natural number
str_nat(n) == IF n < 10 THEN <<Digits[n + 1]>> ELSE Append(str_nat(n \div 10), Digits[(n % 10) + 1])

\* str(n) of an int
str_int(n) == IF n < 0 THEN <<"-">> \o str_nat(-n) ELSE str_nat(n)

\* str(x) of the values a placeholder table holds
str(x) ==
    CASE x.t = "str" -> x.s
      [] x.t = "int" -> str_int(x.n)
      [] OTHER -> Chars("None")

HexDigits == Chars("0123456789abcdef")

\* the value of one character as a base-16 digit, -1 when it is none
hex_value(c) ==
    LET l == lower_char(c)
    IN IF \E i \in 1..16 : HexDigits[i] = l
       THEN (CHOOSE i \in 1..16 : HexDigits[i] = l) - 1
       ELSE -1

RECURSIVE scan_digits(_, _, _, _, _)
\* the digit loop of int(s, 16): digits and single underscores between them;
\* prev is the previous character, n the digits read, acc their value
scan_digits(s, i, prev, n, acc) ==
    IF i > Len(s) THEN [ok |-> prev # "_" /\ n > 0, v |-> acc]
    ELSE IF s[i] = "_"
         THEN IF prev = "_" THEN [ok |-> FALSE, v |-> 0]
              ELSE scan_digits(s, i + 1, "_", n, acc)
         ELSE IF hex_value(s[i]) >= 0
              THEN scan_digits(s, i + 1, s[i], n + 1, acc * 16 + hex_value(s[i]))
              ELSE [ok |-> FALSE, v |-> 0]

\* int(s, 16) past the prefix: no leading underscore, then the digit loop
int16_digits(d) ==
    IF d # <<>> /\ Head(d) = "_" THEN [ok |-> FALSE, v |-> 0]
    ELSE scan_digits(d, 1, "", 0, 0)

\* int(s, 16) past the sign, were no prefix accepted
int16_no_prefix(u) == int16_digits(u)

\* int(s, 16) past the sign: an optional 0x or 0X, which one underscore may follow
int16_prefix(u) ==
    IF Len(u) >= 2 /\ u[1] = "0" /\ u[2] \in {"x", "X"}
    THEN IF Len(u) >= 3 /\ u[3] = "_"
         THEN int16_digits(SubSeq(u, 4, Len(u)))
         ELSE int16_digits(SubSeq(u, 3, Len(u)))
    ELSE int16_digits(u)

negate(r) == [ok |-> r.ok, v |-> -r.v]

\* int(s, 16) past the leading whitespace: one optional sign
int16_sign(t) ==
    IF t # <<>> /\ Head(t) = "-" THEN negate(int16_prefix(Tail(t)))
    ELSE IF t # <<>> /\ Head(t) = "+" THEN int16_prefix(Tail(t))
    ELSE int16_prefix(t)

\* int(s, 16): whitespace off both ends, one optional sign, an optional prefix,
\* then digits with single underscores between them; ok is FALSE where Python
\* raises ValueError
int16(s) == int16_sign(strip(s))

(***************************************************************************)
(* Builder (lib/builder.py).                                               *)
(***************************************************************************)
\* the attributes of a Builder instance
Fields == {"title", "description", "color", "url", "author", "footer", "thumbnail", "image"}

\* the keys of lines 59-73, one per attribute
FieldKey == [f \in Fields |-> Chars(f)]

\* the marker of line 52
EmbedMarker == Chars("{embed}")

\* the delimiter of line 50
Delim == Chars("$v")

\* Builder.__init__, lines 20-27: every attribute starts as None
NewBuilder == [f \in Fields |-> PyNone]

\* line 52 without strip() and lower(): only the bare marker is one
is_embed_marker_exact(attribute) == attribute = EmbedMarker

\* line 52: the segment is the {embed} marker
is_embed_marker(attribute) == lower(strip(attribute)) = EmbedMarker

\* the key with one leading '{' and one trailing '}' removed, not all of them
key_norm_one_brace(key) ==
    LET t == lower(strip(key))
        a == IF t # <<>> /\ Head(t) = "{" THEN Tail(t) ELSE t
    IN IF a # <<>> /\ a[Len(a)] = "}" THEN SubSeq(a, 1, Len(a) - 1) ELSE a

\* line 56: key.strip().lower().strip("{}")
key_norm(key) == strip_chars(lower(strip(key)), {"{", "}"})

\* line 57: value.strip().rstrip("}")
value_norm(value) == rstrip_chars(strip(value), {"}"})

\* line 64: self.color = int(value, 16), c being the outcome of int(value, 16);
\* ok is FALSE where it raises ValueError
assign_color(self, c) ==
    [ok |-> c.ok, self |-> IF c.ok THEN [self EXCEPT !["color"] = PyInt(c.v)] ELSE self]

\* lines 59-74 with an else branch that raises for any other key
assign_unknown_raises(self, key, value) ==
    IF key = FieldKey["color"] THEN assign_color(self, int16(value))
    ELSE IF \E f \in Fields : FieldKey[f] = key
         THEN [ok |-> TRUE,
               self |-> [self EXCEPT ![CHOOSE f \in Fields : FieldKey[f] = key] = PyStr(value)]]
         ELSE [ok |-> FALSE, self |-> self]

\* lines 59-74 with an attribute assigned only while it is None
assign_keep_first(self, key, value) ==
    IF key = FieldKey["color"] THEN assign_color(self, int16(value))
    ELSE IF \E f \in Fields : FieldKey[f] = key /\ self[f] = PyNone
         THEN [ok |-> TRUE,
               self |-> [self EXCEPT ![CHOOSE f \in Fields : FieldKey[f] = key] = PyStr(value)]]
         ELSE [ok |-> TRUE, self |-> self]

\* lines 59-74: the assignment the key selects; any other key assigns nothing
assign(self, key, value) ==
    IF key = FieldKey["color"] THEN assign_color(self, int16(value))
    ELSE IF \E f \in Fields : FieldKey[f] = key
         THEN [ok |-> TRUE,
               self |-> [self EXCEPT ![CHOOSE f \in Fields : FieldKey[f] = key] = PyStr(value)]]
         ELSE [ok |-> TRUE, self |-> self]

RECURSIVE parse_from(_, _, _)
\* the loop of Builder.parse from the i-th attribute on. A ValueError (the
\* unpacking of a segment without ':', or int(value, 16)) leaves the loop with
\* the attributes assigned so far; at is the index of the segment that raised
parse_from(self, attributes, i) ==
    IF i > Len(attributes) THEN [self |-> self, raised |-> "none", at |-> 0]
    ELSE IF is_embed_marker(attributes[i]) THEN parse_from(self, attributes, i + 1)
    ELSE LET kv == split_once(attributes[i], <<":">>)
         IN IF Len(kv) # 2 THEN [self |-> self, raised |-> "ValueError", at |-> i]
            ELSE LET a == assign(self, key_norm(kv[1]), value_norm(kv[2]))
                 IN IF a.ok THEN parse_from(a.self, attributes, i + 1)
                    ELSE [self |-> a.self, raised |-> "ValueError", at |-> i]

\* Builder.parse(flags)
parse(self, f) == parse_from(self, split(f, Delim), 1)

\* Builder.__init__(flags) with parse called for every flags that is a string
init_builder_any_string(f) ==
    IF f.t = "str" THEN parse(NewBuilder, f.s)
    ELSE [self |-> NewBuilder, raised |-> "none", at |-> 0]

\* Builder.__init__(flags): parse is called only for a truthy flags
init_builder(f) ==
    IF Truthy(f) THEN parse(NewBuilder, f.s)
    ELSE [self |-> NewBuilder, raised |-> "none", at |-> 0]

\* a discord.Member, with the attributes Builder.mapping reads; avatar and
\* guild.icon are None or the url of the asset
Member(id, name, display_name, avatar, display_avatar, joined_at, created_at, guild) ==
    [t |-> "object", n |-> 0, s |-> <<>>, items |-> <<>>,
     id |-> id, name |-> name, display_name |-> display_name, avatar |-> avatar,
     display_avatar |-> display_avatar, joined_at |-> joined_at,
     created_at |-> created_at, guild |-> guild]

\* a discord.Guild, with the attributes Builder.mapping reads
Guild(id, name, icon, member_count, premium_subscription_count, premium_tier) ==
    [id |-> id, name |-> name, icon |-> icon, member_count |-> member_count,
     premium_subscription_count |-> premium_subscription_count,
     premium_tier |-> premium_tier]

\* a discord.Message, with the attributes Builder.mapping reads
Message(content, jump_url, created_at) ==
    [t |-> "object", n |-> 0, s |-> <<>>, items |-> <<>>,
     content |-> content, jump_url |-> jump_url, created_at |-> created_at]

\* Member.mention
mention(id) == Chars("<@") \o str_int(id) \o Chars(">")

\* utils.format_dt(dt, style="R") of the instant with the POSIX timestamp ts
format_dt(ts) == Chars("<t:") \o str_int(ts) \o Chars(":R>")

\* lines 104-119: the table of a member
user_mapping(user) ==
    <<Item(Chars("{user.id}"), PyInt(user.id)),
      Item(Chars("{user.mention}"), PyStr(mention(user.id))),
      Item(Chars("{user.name}"), PyStr(user.name)),
      Item(Chars("{user.display}"), PyStr(user.display_name)),
      Item(Chars("{user.avatar}"), user.avatar),
      Item(Chars("{user.display_avatar}"), PyStr(user.display_avatar)),
      Item(Chars("{user.joined_at}"), PyStr(format_dt(user.joined_at))),
      Item(Chars("{user.created_at}"), PyStr(format_dt(user.created_at))),
      Item(Chars("{guild.id}"), PyInt(user.guild.id)),
      Item(Chars("{guild.name}"), PyStr(user.guild.name)),
      Item(Chars("{guild.icon}"), user.guild.icon),
      Item(Chars("{guild.membercount}"), PyInt(user.guild.member_count)),
      Item(Chars("{guild.boost_count}"), PyInt(user.guild.premium_subscription_count)),
      Item(Chars("{guild.boost_tier}"), PyInt(user.guild.premium_tier))>>

\* lines 122-125: the table of a level
level_mapping(level) ==
    <<Item(Chars("{level}"), PyStr(str_int(level))),
      Item(Chars("{level.previous}"), PyStr(str_int(level - 1)))>>

\* lines 128-131: the table of an xp count
xp_mapping(xp) ==
    <<Item(Chars("{xp}"), PyStr(str_int(xp))),
      Item(Chars("{xp.previous}"), PyStr(str_int(xp - 1)))>>

\* lines 134-138: the table of a message
message_mapping(message) ==
    <<Item(Chars("{message.content}"), PyStr(message.content)),
      Item(Chars("{message.url}"), PyStr(message.jump_url)),
      Item(Chars("{message.created_at}"), PyStr(format_dt(message.created_at)))>>

\* Builder.mapping(user, message, level, xp): the table of the first truthy
\* argument among user, level, xp, message, and the empty table without one
mapping(user, message, level, xp) ==
    IF Truthy(user) THEN user_mapping(user)
    ELSE IF Truthy(level) THEN level_mapping(level.n)
    ELSE IF Truthy(xp) THEN xp_mapping(xp.n)
    ELSE IF Truthy(message) THEN message_mapping(message)
    ELSE <<>>

\* lines 165-169 with the test of line 165 left out
replace_one_unguarded(txt, item) == replace(txt, item.k, str(item.v))

\* lines 165-169: one entry of the table applied to the text
replace_one(txt, item) ==
    IF Truthy(item.v) THEN replace(txt, item.k, str(item.v)) ELSE txt

RECURSIVE replace_str_first_hit(_, _, _)
\* lines 164-170 with the loop left at the first entry that changes the text
replace_str_first_hit(txt, table, i) ==
    IF i > Len(table) THEN txt
    ELSE IF replace_one(txt, table[i]) # txt THEN replace_one(txt, table[i])
    ELSE replace_str_first_hit(txt, table, i + 1)

RECURSIVE replace_str(_, _, _)
\* lines 164-170: the entries applied in the table's order, from the i-th on
replace_str(txt, table, i) ==
    IF i > Len(table) THEN txt
    ELSE replace_str(replace_one(txt, table[i]), table, i + 1)

RECURSIVE replace_placeholders_keys(_, _)
\* replace_placeholders with the keys of a dict substituted like its values
replace_placeholders_keys(x, table) ==
    CASE x.t = "str" -> PyStr(replace_str(x.s, table, 1))
      [] x.t \in {"dict", "list"} ->
            [x EXCEPT !.items =
                [j \in 1..Len(x.items) |->
                    Item(replace_str(x.items[j].k, table, 1),
                         replace_placeholders_keys(x.items[j].v, table))]]
      [] OTHER -> x

RECURSIVE replace_placeholders_reversed(_, _)
\* replace_placeholders with the elements of a list returned last to first
replace_placeholders_reversed(x, table) ==
    CASE x.t = "str" -> PyStr(replace_str(x.s, table, 1))
      [] x.t = "dict" ->
            [x EXCEPT !.items =
                [j \in 1..Len(x.items) |->
                    Item(x.items[j].k,
                         replace_placeholders_reversed(x.items[j].v, table))]]
      [] x.t = "list" ->
            [x EXCEPT !.items =
                [j \in 1..Len(x.items) |->
                    Item(<<>>,
                         replace_placeholders_reversed(
                             x.items[Len(x.items) + 1 - j].v, table))]]
      [] OTHER -> x

RECURSIVE replace_placeholders(_, _)
\* Builder.replace_placeholders(text, mappings)
replace_placeholders(x, table) ==
    CASE x.t = "str" -> PyStr(replace_str(x.s, table, 1))
      [] x.t \in {"dict", "list"} ->
            [x EXCEPT !.items =
                [j \in 1..Len(x.items) |->
                    Item(x.items[j].k, replace_placeholders(x.items[j].v, table))]]
      [] OTHER -> x

\* line 225-229: replace_attr, None for an attribute that is None or empty
replace_attr(attr, table) ==
    IF Truthy(attr) THEN replace_placeholders(attr, table) ELSE PyNone

\* discord.Embed(title, description, color, url): the other parts unset
Embed(title, description, color, url) ==
    [title |-> title, description |-> description, colour |-> color, url |-> url,
     type |-> PyStr(Chars("rich")), footer |-> PyNone, image |-> PyNone,
     thumbnail |-> PyNone, author |-> PyNone]

OneItem(k, v) == PyDict(<<Item(Chars(k), v)>>)

\* lines 238-243: embed.set_author(name=author) for a truthy author
with_author(embed, author) ==
    IF Truthy(author) THEN [embed EXCEPT !.author = OneItem("name", author)] ELSE embed

\* lines 244-249: embed.set_footer(text=footer) for a truthy footer
with_footer(embed, footer) ==
    IF Truthy(footer) THEN [embed EXCEPT !.footer = OneItem("text", footer)] ELSE embed

\* lines 250-255: embed.set_thumbnail(url=thumbnail) for a truthy thumbnail
with_thumbnail(embed, thumbnail) ==
    IF Truthy(thumbnail) THEN [embed EXCEPT !.thumbnail = OneItem("url", thumbnail)]
    ELSE embed

\* lines 256-261: embed.set_image(url=image) for a truthy image
with_image(embed, image) ==
    IF Truthy(image) THEN [embed EXCEPT !.image = OneItem("url", image)] ELSE embed

\* lines 225-263: the Embed of the attributes, table being the placeholder table
create_from(self, table) ==
    with_image(
        with_thumbnail(
            with_footer(
                with_author(
                    Embed(replace_attr(self["title"], table),
                          replace_attr(self["description"], table),
                          self["color"], self["url"]),
                    replace_attr(self["author"], table)),
                replace_attr(self["footer"], table)),
            replace_attr(self["thumbnail"], table)),
        replace_attr(self["image"], table))

\* Builder.create(user, message, level, xp)
create(self, user, message, level, xp) ==
    create_from(self, mapping(user, message, level, xp))

Opt(present, k, v) == IF present THEN <<Item(Chars(k), v)>> ELSE <<>>

\* Embed.to_dict(): the parts that are set, then color, type, and the
\* description, url and title that are not empty
to_dict(embed) ==
    PyDict(Opt(embed.footer.t # "none", "footer", embed.footer)
           \o Opt(embed.image.t # "none", "image", embed.image)
           \o Opt(embed.thumbnail.t # "none", "thumbnail", embed.thumbnail)
           \o Opt(embed.author.t # "none", "author", embed.author)
           \o Opt(embed.colour.t # "none", "color", embed.colour)
           \o Opt(Truthy(embed.type), "type", embed.type)
           \o Opt(Truthy(embed.description), "description", embed.description)
           \o Opt(Truthy(embed.url), "url", embed.url)
           \o Opt(Truthy(embed.title), "title", embed.title))

\* dict.get(key): the value of the key, None without it
dict_get(d, k) ==
    IF \E j \in 1..Len(d.items) : d.items[j].k = Chars(k)
    THEN d.items[CHOOSE j \in 1..Len(d.items) : d.items[j].k = Chars(k)].v
    ELSE PyNone

\* Embed.from_dict(data)
from_dict(data) ==
    [title |-> dict_get(data, "title"), description |-> dict_get(data, "description"),
     colour |-> dict_get(data, "color"), url |-> dict_get(data, "url"),
     type |-> dict_get(data, "type"), footer |-> dict_get(data, "footer"),
     image |-> dict_get(data, "image"), thumbnail |-> dict_get(data, "thumbnail"),
     author |-> dict_get(data, "author")]

(***************************************************************************)
(* json.dumps and json.loads, for the values an embed's dict holds:        *)
(* strings, ints, None, dicts and lists.                                   *)
(***************************************************************************)
Quote == "\""

Backslash == "\\"

RECURSIVE json_escape(_)
\* the characters of a JSON string: a quote and a backslash are escaped
json_escape(s) ==
    IF s = <<>> THEN <<>>
    ELSE IF Head(s) \in {Quote, Backslash}
         THEN <<Backslash, Head(s)>> \o json_escape(Tail(s))
         ELSE <<Head(s)>> \o json_escape(Tail(s))

json_string(s) == <<Quote>> \o json_escape(s) \o <<Quote>>

RECURSIVE json_dumps(_)
RECURSIVE json_items(_, _, _)
\* the items of a dict (keyed) or a list from the j-th on, ", " between them
json_items(items, keyed, j) ==
    IF j > Len(items) THEN <<>>
    ELSE (IF j > 1 THEN Chars(", ") ELSE <<>>)
         \o (IF keyed THEN json_string(items[j].k) \o Chars(": ") ELSE <<>>)
         \o json_dumps(items[j].v)
         \o json_items(items, keyed, j + 1)

\* json.dumps(x)
json_dumps(x) ==
    CASE x.t = "str" -> json_string(x.s)
      [] x.t = "int" -> str_int(x.n)
      [] x.t = "dict" -> <<"{">> \o json_items(x.items, TRUE, 1) \o <<"}">>
      [] x.t = "list" -> <<"[">> \o json_items(x.items, FALSE, 1) \o <<"]">>
      [] OTHER -> Chars("null")

RECURSIVE json_skip(_, _)
\* the index of the first character from i on that is not whitespace
json_skip(s, i) == IF i <= Len(s) /\ s[i] \in Whitespace THEN json_skip(s, i + 1) ELSE i

RECURSIVE json_read_string(_, _, _)
\* the string whose characters start at i (past the opening quote): its
\* characters and the index past the closing quote
json_read_string(s, i, acc) ==
    IF s[i] = Quote THEN [v |-> acc, next |-> i + 1]
    ELSE IF s[i] = Backslash THEN json_read_string(s, i + 2, Append(acc, s[i + 1]))
    ELSE json_read_string(s, i + 1, Append(acc, s[i]))

RECURSIVE json_read_nat(_, _, _)
\* the digits from i on: their value and the index past them
json_read_nat(s, i, acc) ==
    IF i <= Len(s) /\ \E d \in 1..10 : Digits[d] = s[i]
    THEN json_read_nat(s, i + 1, 10 * acc + (CHOOSE d \in 1..10 : Digits[d] = s[i]) - 1)
    ELSE [v |-> acc, next |-> i]

json_str_result(r) == [v |-> PyStr(r.v), next |-> r.next]

json_int_result(r, sign) == [v |-> PyInt(sign * r.v), next |-> r.next]

RECURSIVE json_read_value(_, _)
RECURSIVE json_read_items(_, _, _, _, _)
json_item_result(key, val) == [v |-> Item(key, val.v), next |-> val.next]

\* one item of a container at i: the key and ':' first in a dict
json_read_item(s, i, keyed) ==
    IF keyed
    THEN json_item_result(json_read_string(s, i + 1, <<>>).v,
             json_read_value(s, json_skip(s, json_skip(s, json_read_string(s, i + 1, <<>>).next) + 1)))
    ELSE json_item_result(<<>>, json_read_value(s, i))

json_items_next(s, item, close, keyed, acc) ==
    json_read_items(s, json_skip(s, item.next), close, keyed, Append(acc, item.v))

\* the items of a container from i on, up to its closing character
json_read_items(s, i, close, keyed, acc) ==
    IF s[i] = close THEN [v |-> acc, next |-> i + 1]
    ELSE IF s[i] = "," THEN json_read_items(s, json_skip(s, i + 1), close, keyed, acc)
    ELSE json_items_next(s, json_read_item(s, i, keyed), close, keyed, acc)

json_dict_result(r) == [v |-> PyDict(r.v), next |-> r.next]

json_list_result(r) == [v |-> PyList(r.v), next |-> r.next]

\* the value that starts at i, and the index past it
json_read_value(s, i) ==
    CASE s[i] = Quote -> json_str_result(json_read_string(s, i + 1, <<>>))
      [] s[i] = "{" -> json_dict_result(json_read_items(s, json_skip(s, i + 1), "}", TRUE, <<>>))
      [] s[i] = "[" -> json_list_result(json_read_items(s, json_skip(s, i + 1), "]", FALSE, <<>>))
      [] s[i] = "-" -> json_int_result(json_read_nat(s, i + 1, 0), -1)
      [] s[i] = "n" -> [v |-> PyNone, next |-> i + 4]
      [] OTHER -> json_int_result(json_read_nat(s, i, 0), 1)

\* json.loads(s) of a text json.dumps wrote
json_loads(s) == json_read_value(s, json_skip(s, 1)).v

(***************************************************************************)
(* The command groups: welcome.py (goodbye.py is the same code over the    *)
(* goodbyes table), the context's replies and the bot's error handler.     *)
(***************************************************************************)
\* a discord.TextChannel of the guild with the given id
TextChannel(id, guild) ==
    [t |-> "object", n |-> 0, s |-> <<>>, items |-> <<>>, id |-> id, guild |-> guild]

\* the invocation context: the author, the author's guild, the channel and
\* the message of the invocation; permitted is whether the author's
\* guild_permissions hold manage_channels and manage_guild
Context(author, channel, message, permitted) ==
    [author |-> author, guild |-> author.guild, channel |-> channel,
     message |-> message, permitted |-> permitted]

\* a row of the welcomes table: channel, content, embed (guild is the key)
Row(channel, content, embed) ==
    [t |-> "row", n |-> 0, s |-> <<>>, items |-> <<>>,
     channel |-> channel, content |-> content, embed |-> embed]

\* cursor.fetchone() without a row
NoRow == PyNone

\* the welcomes table is the sequence of its rows in the order they were
\* written, each with its guild, the primary key

\* SELECT channel, content, embed FROM welcomes WHERE guild = g, fetchone()
fetchone(st, g) ==
    IF \E i \in 1..Len(st) : st[i].guild = g
    THEN st[CHOOSE i \in 1..Len(st) :
                /\ st[i].guild = g
                /\ \A j \in 1..(i - 1) : st[j].guild # g].row
    ELSE NoRow

RECURSIVE delete_from(_, _)
\* DELETE FROM welcomes WHERE guild = g
delete_from(st, g) ==
    IF st = <<>> THEN <<>>
    ELSE IF Head(st).guild = g THEN delete_from(Tail(st), g)
    ELSE <<Head(st)>> \o delete_from(Tail(st), g)

\* INSERT INTO welcomes, as on a table without the primary key
insert_into(st, g, row) == Append(st, [guild |-> g, row |-> row])

\* REPLACE INTO welcomes: the row of the same primary key is deleted, the
\* new one inserted
replace_into(st, g, row) == Append(delete_from(st, g), [guild |-> g, row |-> row])

NoError == [type |-> "none", at |-> 0]

NoReply ==
    [kind |-> "none", channel |-> 0, content |-> PyNone, embed |-> PyNone,
     error |-> "none"]

\* channel.send(content=content, embed=embed), channel given by its id
channel_send(channel, content, embed) ==
    [kind |-> "send", channel |-> channel, content |-> content,
     embed |-> embed, error |-> "none"]

\* ctx.send(content=content, embed=embed), to the channel of the invocation
send(ctx, content, embed) == channel_send(ctx.channel.id, content, embed)

\* ctx.approve(content): the tick embed with the author's mention and content
approve(ctx, content) ==
    [kind |-> "approve", channel |-> ctx.channel.id, content |-> PyStr(content),
     embed |-> PyNone, error |-> "none"]

\* ctx.deny(content): the nope embed with the author's mention and content
deny(ctx, content) ==
    [kind |-> "deny", channel |-> ctx.channel.id, content |-> PyStr(content),
     embed |-> PyNone, error |-> "none"]

\* ctx.alert(content): the warn embed with the author's mention and content
alert(ctx, content) ==
    [kind |-> "alert", channel |-> ctx.channel.id, content |-> PyStr(content),
     embed |-> PyNone, error |-> "none"]

\* ctx.alert(f"**{str(error).strip('.')}**"): the alert that reports error
alert_error(ctx, error) ==
    [kind |-> "alert", channel |-> ctx.channel.id, content |-> PyNone,
     embed |-> PyNone, error |-> error]

\* ctx.help(): the help pages of the command
help(ctx) ==
    [kind |-> "help", channel |-> ctx.channel.id, content |-> PyNone,
     embed |-> PyNone, error |-> "none"]

\* the classes an error of discord.ext.commands is an instance of; an
\* exception a command raised reaches the handler as a CommandInvokeError
Bases(error) ==
    CASE error = "MissingRequiredArgument" ->
            {"MissingRequiredArgument", "UserInputError", "CommandError"}
      [] error = "MissingRequiredAttachment" ->
            {"MissingRequiredAttachment", "UserInputError", "CommandError"}
      [] error = "MissingFlagArgument" ->
            {"MissingFlagArgument", "FlagError", "BadArgument", "UserInputError",
             "CommandError"}
      [] error = "MissingRequiredFlag" ->
            {"MissingRequiredFlag", "FlagError", "BadArgument", "UserInputError",
             "CommandError"}
      [] error = "CommandOnCooldown" -> {"CommandOnCooldown", "CommandError"}
      [] error = "CommandNotFound" -> {"CommandNotFound", "CommandError"}
      [] error = "MissingPermissions" ->
            {"MissingPermissions", "CheckFailure", "CommandError"}
      [] OTHER -> {"CommandInvokeError", "CommandError"}

isinstance(error, classes) == Bases(error) \cap classes # {}

\* Template.on_command_error(ctx, error): the reply it sends
on_command_error(ctx, error) ==
    IF isinstance(error, {"MissingRequiredArgument", "MissingFlagArgument",
                          "MissingRequiredAttachment", "MissingRequiredFlag"})
    THEN help(ctx)
    ELSE IF isinstance(error, {"CommandOnCooldown"})
    THEN deny(ctx, Chars("You are on **cooldown!**"))
    ELSE IF isinstance(error, {"CommandError"}) THEN alert_error(ctx, error)
    ELSE NoReply

\* a handler returned: the table, the reply and the row it had fetched
Returned(st, rep, row) == [store |-> st, raised |-> NoError, reply |-> rep, row |-> row]

\* a handler (or its check) raised: the table as the handler left it, and the
\* reply of on_command_error
Raised(st, ctx, type, at, row) ==
    [store |-> st, raised |-> [type |-> type, at |-> at],
     reply |-> on_command_error(ctx, type), row |-> row]

\* json.dumps(builder.create().to_dict())
embed_json(self) ==
    PyStr(json_dumps(to_dict(create(self, PyNone, PyNone, PyNone, PyNone))))

\* x or y
or(x, y) == IF Truthy(x) THEN x ELSE y

\* welcome.py 145-173 with the parse of the flags skipped over when it raises
add_built_unchecked(st, ctx, channel, content, b) ==
    Returned(replace_into(st, ctx.guild.id,
                  Row(or(PyInt(channel.id), PyInt(ctx.channel.id)).n, content,
                      embed_json(b.self))),
             send(ctx, PyNone, create(b.self, ctx.author, PyNone, PyNone, PyNone)),
             NoRow)

\* welcome.py 145-173: add from Builder(flags) on, b being what the
\* constructor did
add_built(st, ctx, channel, content, b) ==
    IF b.raised # "none" THEN Raised(st, ctx, b.raised, b.at, NoRow)
    ELSE Returned(replace_into(st, ctx.guild.id,
                       Row(or(PyInt(channel.id), PyInt(ctx.channel.id)).n, content,
                           embed_json(b.self))),
                  send(ctx, PyNone, create(b.self, ctx.author, PyNone, PyNone, PyNone)),
                  NoRow)

\* a channel of ctx.guild.channels
in_guild(ctx, channel) == channel.t = "object" /\ channel.guild = ctx.guild.id

\* welcome.py 140-143: the alert for a channel of another guild; for no
\* channel at all channel.mention raises AttributeError
not_in_guild(st, ctx, channel, row) ==
    IF channel.t = "none" THEN Raised(st, ctx, "AttributeError", 0, row)
    ELSE Returned(st,
                  alert(ctx, Chars("<#") \o str_int(channel.id)
                             \o Chars("> is not in this **server!**")),
                  row)

\* Welcome.add(ctx, channel, content, flags)
add(st, ctx, channel, content, f) ==
    IF ~in_guild(ctx, channel) THEN not_in_guild(st, ctx, channel, NoRow)
    ELSE add_built(st, ctx, channel, content, init_builder(f))

\* welcome.py 232-260: edit from Builder(flags) on
edit_built(st, ctx, channel, content, row, b) ==
    IF b.raised # "none" THEN Raised(st, ctx, b.raised, b.at, row)
    ELSE Returned(replace_into(st, ctx.guild.id,
                       Row(or(PyInt(channel.id), PyInt(row.channel)).n,
                           or(content, row.content),
                           or(embed_json(b.self), row.embed))),
                  send(ctx, PyNone, create(b.self, ctx.author, PyNone, PyNone, PyNone)),
                  row)

\* welcome.py 214-260: edit from the SELECT on
edit_row(st, ctx, channel, content, f, row) ==
    IF ~Truthy(row)
    THEN Returned(st, deny(ctx, Chars("No welcome message to **edit!**")), row)
    ELSE edit_built(st, ctx, channel, content, row, init_builder(f))

\* Welcome.edit(ctx, channel, content, flags)
edit(st, ctx, channel, content, f) ==
    IF ~in_guild(ctx, channel) THEN not_in_guild(st, ctx, channel, NoRow)
    ELSE edit_row(st, ctx, channel, content, f, fetchone(st, ctx.guild.id))

\* welcome.py 300-324, 398-420 without the two replace_placeholders calls
rendered_raw(channel, row, table) ==
    channel_send(channel, row.content, from_dict(json_loads(row.embed.s)))

\* welcome.py 300-324, 398-420: the stored content and embed with the table
\* applied, sent to the channel
rendered(channel, row, table) ==
    channel_send(channel, replace_placeholders(row.content, table),
                 from_dict(replace_placeholders(json_loads(row.embed.s), table)))

\* Welcome.view(ctx)
view(st, ctx) ==
    IF Truthy(fetchone(st, ctx.guild.id))
    THEN Returned(st,
                  rendered(ctx.channel.id, fetchone(st, ctx.guild.id),
                           mapping(ctx.author, ctx.message, PyNone, PyNone)),
                  fetchone(st, ctx.guild.id))
    ELSE Returned(st, deny(ctx, Chars("No welcome message **set**!")), NoRow)

\* remove with the DELETE left out: the approval without the deletion
remove_keeps_row(st, ctx) ==
    Returned(st, approve(ctx, Chars("Welcome message **removed!**")), NoRow)

\* Welcome.remove(ctx)
remove(st, ctx) ==
    Returned(delete_from(st, ctx.guild.id),
             approve(ctx, Chars("Welcome message **removed!**")), NoRow)

\* Welcome.on_member_join(member): the message goes to the stored channel
on_member_join(st, member) ==
    IF Truthy(fetchone(st, member.guild.id))
    THEN Returned(st,
                  rendered(fetchone(st, member.guild.id).channel, fetchone(st, member.guild.id),
                           mapping(member, PyNone, PyNone, PyNone)),
                  fetchone(st, member.guild.id))
    ELSE Returned(st, NoReply, NoRow)

\* Welcome.cog_check(ctx): True for an author with the two permissions,
\* MissingPermissions raised (FALSE here) for any other
cog_check(ctx) == ctx.permitted

(***************************************************************************)
(* The parser on its own: a Builder is constructed from a flag string, or  *)
(* parse is called on a fresh Builder.                                     *)
(***************************************************************************)
RECURSIVE PieceStrings(_, _)
\* the strings made of at most n pieces
PieceStrings(pieces, n) ==
    IF n = 0 THEN {<<>>}
    ELSE {<<>>} \cup {p \o s : p \in pieces, s \in PieceStrings(pieces, n - 1)}

FlagPieces ==
    {Chars("{"), Chars("}"), Chars(":"), Chars(" "), Chars("$v"), Chars("title:"),
     Chars("URL"), Chars("{embed}"), Chars("{user.name}"), Chars("{title: Hey}")}

ColorPieces ==
    {Chars("f"), Chars("A"), Chars("0x"), Chars("-"), Chars("+"), Chars("_"),
     Chars("z"), Chars(" "), Chars("}")}

FlagInputs ==
    PieceStrings(FlagPieces, MaxFlagPieces)
        \cup {Chars("Color:") \o s : s \in PieceStrings(ColorPieces, MaxColorPieces)}

Nil == "nil"

InitParse ==
    /\ pc = "start"
    /\ flags \in {PyNone} \cup {PyStr(s) : s \in FlagInputs}
    /\ builder = NewBuilder
    /\ raised = [type |-> "none", at |-> 0]
    /\ result = Nil
    /\ text = Nil /\ mappings = Nil /\ args = Nil
    /\ store = Nil /\ cmd = Nil /\ reply = Nil

\* Builder(flags): the instance is returned unless __init__ raised
BuilderInit ==
    /\ pc = "start"
    /\ LET r == init_builder(flags)
       IN /\ builder' = r.self
          /\ raised' = [type |-> r.raised, at |-> r.at]
          /\ result' = IF r.raised = "none" THEN r.self ELSE Nil
    /\ pc' = "constructed"
    /\ UNCHANGED <<flags, text, mappings, args, store, cmd, reply>>

\* Builder().parse(flags) on a fresh instance; parse has no return statement,
\* so a call that does not raise evaluates to None
BuilderParse ==
    /\ pc = "start"
    /\ flags.t = "str"
    /\ LET r == parse(NewBuilder, flags.s)
       IN /\ builder' = r.self
          /\ raised' = [type |-> r.raised, at |-> r.at]
          /\ result' = IF r.raised = "none" THEN PyNone ELSE Nil
    /\ pc' = "parsed"
    /\ UNCHANGED <<flags, text, mappings, args, store, cmd, reply>>

NextParse == BuilderInit \/ BuilderParse

SpecParse == InitParse /\ [][NextParse]_vars

(***************************************************************************)
(* Properties of the parser.                                               *)
(***************************************************************************)
ParseDone == pc \in {"constructed", "parsed"} /\ flags.t = "str"

\* parse ran: called directly, or by the constructor on a truthy flag string
ParseRan == ParseDone /\ (pc = "constructed" => Truthy(flags))

\* f[i..j] (empty when j = i - 1) lies between two delimiters or ends of f
IsSegment(f, i, j) ==
    /\ i = 1 \/ MatchAt(f, Delim, i - 2)
    /\ j = Len(f) \/ MatchAt(f, Delim, j + 1)
    /\ \A k \in i..j : ~MatchAt(f, Delim, k)

SegmentBounds(f) ==
    {b \in (1..(Len(f) + 1)) \X (0..Len(f)) : b[2] >= b[1] - 1 /\ IsSegment(f, b[1], b[2])}

\* the number of the segment that starts at i, counting from 1
SegmentNumber(f, i) == 1 + Cardinality({k \in 1..(i - 2) : MatchAt(f, Delim, k)})

HasColon(seg) == \E k \in 1..Len(seg) : seg[k] = ":"

Malformed(seg) == ~is_embed_marker(seg) /\ ~HasColon(seg)

\* the segments the loop went through without raising
Passed(n) == raised.type = "none" \/ n < raised.at

\* C4: parse raises for every flag string with a segment that is not the
\* {embed} marker and has no ':' (an empty segment included), and then the
\* constructor returns no Builder; the segment at which parse raises either
\* has no ':' or has the key color.
C4_MalformedSegmentRaises ==
    ParseRan =>
        /\ (\E b \in SegmentBounds(flags.s) : Malformed(SubSeq(flags.s, b[1], b[2])))
              => raised.type = "ValueError" /\ (pc = "constructed" => result = Nil)
        /\ raised.type = "ValueError" =>
              \E b \in SegmentBounds(flags.s) :
                  /\ SegmentNumber(flags.s, b[1]) = raised.at
                  /\ LET seg == SubSeq(flags.s, b[1], b[2])
                     IN \/ Malformed(seg)
                        \/ key_norm(split_once(seg, <<":">>)[1]) = FieldKey["color"]

C4_Witness ==
    /\ pc = "constructed"
    /\ flags = PyStr(Chars("title:{user.name}$v"))
    /\ raised = [type |-> "ValueError", at |-> 2]
    /\ result = Nil

\* the segments of the flag string, and the raw key and value of the n-th
Segments == split(flags.s, Delim)

RawKey(n) == split_once(Segments[n], <<":">>)[1]

RawValue(n) == split_once(Segments[n], <<":">>)[2]

\* the segments that went through the loop and were split into key and value
KeyedSegments ==
    {n \in 1..Len(Segments) :
        Passed(n) /\ ~is_embed_marker(Segments[n]) /\ HasColon(Segments[n])}

TextFields == Fields \ {"color"}

Braces == {"{", "}"}

\* t is name with only braces before it and only braces after it
BracedName(t, name) ==
    \E i \in 1..(Len(t) + 1) :
        /\ MatchAt(t, name, i)
        /\ \A m \in 1..(i - 1) : t[m] \in Braces
        /\ \A m \in (i + Len(name))..Len(t) : t[m] \in Braces

\* the key as the claim normalizes it: trimmed, lower-cased, then one leading
\* '{' and one trailing '}' removed
OneBraceKey(k) ==
    LET t == lower(strip(k))
        a == IF t # <<>> /\ Head(t) = "{" THEN Tail(t) ELSE t
    IN IF a # <<>> /\ a[Len(a)] = "}" THEN SubSeq(a, 1, Len(a) - 1) ELSE a

\* the value as the claim normalizes it: trimmed, then at most one trailing '}'
\* removed
OneBraceValue(v) ==
    LET t == strip(v)
    IN IF t # <<>> /\ t[Len(t)] = "}" THEN SubSeq(t, 1, Len(t) - 1) ELSE t

\* the last segment whose key selects the field f
LastSelecting(f) ==
    CHOOSE n \in KeyedSegments :
        /\ key_norm(RawKey(n)) = FieldKey[f]
        /\ \A m \in KeyedSegments : key_norm(RawKey(m)) = FieldKey[f] => m <= n

\* C3: the value stored for a field is the text after the first ':' of the
\* segment, trimmed, with at most one trailing '}' removed.
C3_OneTrailingBraceRemoved ==
    ParseRan /\ raised.type = "none" =>
        \A f \in TextFields :
            builder[f].t = "str" =>
                builder[f] = PyStr(OneBraceValue(RawValue(LastSelecting(f))))

\* C9 as stated: a segment selects a field exactly when its key, trimmed,
\* lower-cased and stripped of one leading '{' and one trailing '}', is the
\* field's name.
C9_OneBraceEachSide ==
    ParseRan /\ raised.type = "none" =>
        \A f \in Fields :
            builder[f] # PyNone <=>
                \E n \in KeyedSegments : OneBraceKey(RawKey(n)) = FieldKey[f]

\* C9 as amended: a segment selects a field exactly when its key, trimmed and
\* lower-cased, is the field's name with any number of '{' and '}' before it
\* and after it.
C9_KeyBracesStripped ==
    ParseRan =>
        \A f \in Fields :
            builder[f] # PyNone <=>
                \E n \in KeyedSegments : BracedName(lower(strip(RawKey(n))), FieldKey[f])

C9_Witness ==
    /\ pc = "parsed"
    /\ flags = PyStr(Chars("}{title:"))
    /\ raised.type = "none"
    /\ builder["title"] = PyStr(<<>>)

\* the segments with the key color that the loop reached
ColorSegments ==
    {n \in 1..Len(Segments) :
        /\ Passed(n) \/ n = raised.at
        /\ ~is_embed_marker(Segments[n])
        /\ HasColon(Segments[n])
        /\ key_norm(RawKey(n)) = FieldKey["color"]}

HexChars == {"0", "1", "2", "3", "4", "5", "6", "7", "8", "9",
             "a", "b", "c", "d", "e", "f", "A", "B", "C", "D", "E", "F"}

DigitValue(c) ==
    CHOOSE d \in 0..15 :
        Chars("0123456789abcdef")[d + 1] = c \/ Chars("0123456789ABCDEF")[d + 1] = c

RECURSIVE HexSum(_)
\* the base-16 value of a string of hexadecimal digits
HexSum(ds) ==
    IF ds = <<>> THEN 0
    ELSE 16 * HexSum(SubSeq(ds, 1, Len(ds) - 1)) + DigitValue(ds[Len(ds)])

\* a non-empty string of hexadecimal digits
HexDigitString(v) == v # <<>> /\ \A k \in 1..Len(v) : v[k] \in HexChars

HasSign(t) == t # <<>> /\ t[1] \in {"+", "-"}

Unsigned(t) == IF HasSign(t) THEN Tail(t) ELSE t

HasPrefix(u) == Len(u) >= 2 /\ u[1] = "0" /\ u[2] \in {"x", "X"}

Unprefixed(u) == IF HasPrefix(u) THEN SubSeq(u, 3, Len(u)) ELSE u

\* hexadecimal digits with single underscores between them; one underscore
\* may come first when a prefix precedes
DigitGroups(b, prefixed) ==
    /\ b # <<>>
    /\ \A k \in 1..Len(b) : b[k] \in HexChars \cup {"_"}
    /\ b[Len(b)] # "_"
    /\ prefixed \/ b[1] # "_"
    /\ \A k \in 1..(Len(b) - 1) : ~(b[k] = "_" /\ b[k + 1] = "_")

\* what int(v, 16) accepts: surrounded by whitespace, an optional sign, an
\* optional 0x or 0X, then the digit groups
HexLiteral(v) ==
    DigitGroups(Unprefixed(Unsigned(strip(v))), HasPrefix(Unsigned(strip(v))))

IsDigit(c) == c # "_"

\* the signed value of a HexLiteral
HexLiteralValue(v) ==
    (IF HasSign(strip(v)) /\ strip(v)[1] = "-" THEN -1 ELSE 1)
        * HexSum(SelectSeq(Unprefixed(Unsigned(strip(v))), IsDigit))

LastColorSegment == CHOOSE n \in ColorSegments : \A m \in ColorSegments : m <= n

\* C8 as stated: a color segment succeeds exactly when its normalized value is
\* a non-empty string of hexadecimal digits, and the color is then its base-16
\* value.
C8_HexDigitsOnly ==
    ParseRan =>
        /\ \A n \in ColorSegments : Passed(n) <=> HexDigitString(value_norm(RawValue(n)))
        /\ raised.type = "none" /\ ColorSegments # {} =>
              builder["color"] = PyInt(HexSum(value_norm(RawValue(LastColorSegment))))

\* C8 as amended: a color segment succeeds exactly when its normalized value
\* is, between optional whitespace, an optional sign, an optional 0x or 0X and
\* hexadecimal digits with single underscores between them (one may follow the
\* prefix); the color is then that signed base-16 value, not clamped.
C8_ColorIsPythonHexLiteral ==
    ParseRan =>
        /\ \A n \in ColorSegments : Passed(n) <=> HexLiteral(value_norm(RawValue(n)))
        /\ raised.type = "none" /\ ColorSegments # {} =>
              builder["color"] = PyInt(HexLiteralValue(value_norm(RawValue(LastColorSegment))))

C8_Witness ==
    /\ pc = "constructed"
    /\ flags = PyStr(Chars("Color:-0xf"))
    /\ raised.type = "none"
    /\ builder["color"] = PyInt(-15)

(***************************************************************************)
(* The placeholder table on its own: mapping is called with each           *)
(* combination of a member, a message, a level and an xp count.            *)
(***************************************************************************)
\* a guild without an icon and without boosts, and a guild with both
GuildDev == Guild(1, Chars("Dev"), PyNone, 3, 0, 0)

GuildLab == Guild(2, Chars("Lab"), PyStr(Chars("i.png")), 10, 2, 1)

\* a member without a custom avatar, and a member with one
Ann == Member(7, Chars("ann"), Chars("Ann"), PyNone, Chars("d.png"), 5, 3, GuildDev)

Bob == Member(8, Chars("bob"), Chars("Bob"), PyStr(Chars("b.png")), Chars("b.png"), 6, 4, GuildLab)

\* a message with text, and a message without (an attachment only)
Hello == Message(Chars("yo"), Chars("m/1"), 9)

Bare == Message(<<>>, Chars("m/2"), 9)

Users == <<PyNone, Ann, Bob>>

Messages == <<PyNone, Hello, Bare>>

Counts == {PyNone} \cup {PyInt(n) : n \in (-MaxLevel)..MaxLevel}

InitMapping ==
    /\ pc = "start"
    /\ \E u \in 1..Len(Users), m \in 1..Len(Messages), l \in Counts, x \in Counts :
          args = [user |-> Users[u], message |-> Messages[m], level |-> l, xp |-> x]
    /\ mappings = Nil
    /\ flags = Nil /\ builder = Nil /\ raised = Nil /\ result = Nil /\ text = Nil
    /\ store = Nil /\ cmd = Nil /\ reply = Nil

\* Builder().mapping(user, message, level, xp)
BuilderMapping ==
    /\ pc = "start"
    /\ mappings' = mapping(args.user, args.message, args.level, args.xp)
    /\ pc' = "mapped"
    /\ UNCHANGED <<flags, builder, raised, result, text, args, store, cmd, reply>>

NextMapping == BuilderMapping

SpecMapping == InitMapping /\ [][NextMapping]_vars

\* only a level is supplied (a LevelEvent), only an xp count (an XpEvent)
LevelEvent ==
    /\ args.level.t = "int"
    /\ args.user.t = "none" /\ args.message.t = "none" /\ args.xp.t = "none"

XpEvent ==
    /\ args.xp.t = "int"
    /\ args.user.t = "none" /\ args.message.t = "none" /\ args.level.t = "none"

\* C7: for every integer n supplied as the level, the table maps {level} to
\* the decimal text of n and {level.previous} to that of n - 1; likewise for
\* an xp count and {xp}, {xp.previous}.
C7_LevelAndXpTable ==
    pc = "mapped" =>
        /\ LevelEvent =>
              mappings = <<Item(Chars("{level}"), PyStr(str_int(args.level.n))),
                           Item(Chars("{level.previous}"), PyStr(str_int(args.level.n - 1)))>>
        /\ XpEvent =>
              mappings = <<Item(Chars("{xp}"), PyStr(str_int(args.xp.n))),
                           Item(Chars("{xp.previous}"), PyStr(str_int(args.xp.n - 1)))>>

(***************************************************************************)
(* The substitution on its own: replace_placeholders is called with a text *)
(* and a table built by mapping.                                           *)
(***************************************************************************)
TextPieces ==
    {Chars("{user.name}"), Chars("{user.avatar}"), Chars("{guild.boost_count}"),
     Chars("{guild.icon}"), Chars("{message.content}"), Chars("{level}"),
     Chars("{"), Chars("}"), Chars("hi ")}

Tables ==
    {mapping(Ann, PyNone, PyNone, PyNone), mapping(Bob, PyNone, PyNone, PyNone),
     mapping(PyNone, Hello, PyNone, PyNone), mapping(PyNone, Bare, PyNone, PyNone),
     mapping(PyNone, PyNone, PyInt(5), PyNone), mapping(PyNone, PyNone, PyNone, PyInt(1))}

InitReplace ==
    /\ pc = "start"
    /\ text \in {PyStr(s) : s \in PieceStrings(TextPieces, MaxTextPieces)}
    /\ mappings \in Tables
    /\ result = Nil
    /\ flags = Nil /\ builder = Nil /\ raised = Nil /\ args = Nil
    /\ store = Nil /\ cmd = Nil /\ reply = Nil

\* Builder().replace_placeholders(text, mappings)
BuilderReplace ==
    /\ pc = "start"
    /\ result' = replace_placeholders(text, mappings)
    /\ pc' = "replaced"
    /\ UNCHANGED <<flags, builder, raised, text, mappings, args, store, cmd, reply>>

NextReplace == BuilderReplace

SpecReplace == InitReplace /\ [][NextReplace]_vars

\* sub occurs in s
Occurs(s, sub) == \E i \in 1..Len(s) : MatchAt(s, sub, i)

TableEntries == {mappings[i] : i \in 1..Len(mappings)}

\* C1: after the substitution of a string, no token whose value is not None
\* (0 and the empty string included) occurs in the result.
C1_NonNullTokensReplaced ==
    pc = "replaced" /\ text.t = "str" =>
        \A e \in TableEntries : e.v.t # "none" => ~Occurs(result.s, e.k)

\* a character no text, token or value holds
Mark == <<"mark">>

\* C2: a token whose value is None is left as written at every occurrence:
\* the substitution carries each occurrence through as if it were one opaque
\* character, never blanking it and never putting the text None in its place.
C2_NullTokensLeftAsWritten ==
    pc = "replaced" /\ text.t = "str" =>
        \A e \in TableEntries :
            e.v.t = "none" =>
                result.s = replace(replace_str(replace(text.s, e.k, Mark), mappings, 1),
                                   Mark, e.k)

C2_Witness ==
    /\ pc = "replaced"
    /\ mappings = mapping(Ann, PyNone, PyNone, PyNone)
    /\ text = PyStr(Chars("{user.name}{user.avatar}{guild.icon}"))
    /\ result = PyStr(Chars("ann{user.avatar}{guild.icon}"))

(***************************************************************************)
(* The bot: the commands of the welcome group, member joins and commands   *)
(* the framework rejects, over the welcomes table. The statements of a     *)
(* handler between two awaits run without interruption, and every handler  *)
(* reads and writes the table before its first await.                      *)
(***************************************************************************)
GuildIds == {GuildDev.id, GuildLab.id}

\* a member of the first guild who runs no command
Cyd == Member(5, Chars("cyd"), Chars("Cyd"), PyNone, Chars("c.png"), 5, 3, GuildDev)

Contexts ==
    {Context(Ann, TextChannel(12, GuildDev.id), Hello, TRUE),
     Context(Ann, TextChannel(12, GuildDev.id), Hello, FALSE),
     Context(Bob, TextChannel(21, GuildLab.id), Bare, TRUE)}

\* the channel argument: none, a channel of the first guild that is not the
\* one its commands are invoked in, the channel of the second guild
ChannelArgs == {PyNone, TextChannel(11, GuildDev.id), TextChannel(21, GuildLab.id)}

ContentArgs == {PyNone, PyStr(Chars("hi {user.name} of {guild.name}"))}

FlagArgs ==
    {PyNone,
     PyStr(Chars("{title: Hi {user.name}!}$v{url: {user.id}/x}$v{color: ff}")),
     PyStr(Chars("oops")),
     PyStr(Chars("{title: T}$v{color: zz}"))}

\* the errors the framework raises before a handler runs
FrameworkErrors == {"CommandNotFound", "CommandOnCooldown"}

Init ==
    /\ store = <<>>
    /\ cmd = [name |-> "none", ctx |-> PyNone, channel |-> PyNone,
              content |-> PyNone, flags |-> PyNone, row |-> NoRow]
    /\ reply = NoReply
    /\ raised = NoError
    /\ pc = "ready"
    /\ flags = Nil /\ builder = Nil /\ result = Nil
    /\ text = Nil /\ mappings = Nil /\ args = Nil

\* an invocation ran to its outcome
Done(name, ctx, channel, content, f, outcome) ==
    /\ store' = outcome.store
    /\ raised' = outcome.raised
    /\ reply' = outcome.reply
    /\ cmd' = [name |-> name, ctx |-> ctx, channel |-> channel, content |-> content,
               flags |-> f, row |-> outcome.row]
    /\ UNCHANGED <<pc, flags, builder, result, text, mappings, args>>

Add ==
    \E ctx \in Contexts, channel \in ChannelArgs, content \in ContentArgs, f \in FlagArgs :
        /\ cog_check(ctx)
        /\ Done("add", ctx, channel, content, f, add(store, ctx, channel, content, f))

Edit ==
    \E ctx \in Contexts, channel \in ChannelArgs, content \in ContentArgs, f \in FlagArgs :
        /\ cog_check(ctx)
        /\ Done("edit", ctx, channel, content, f, edit(store, ctx, channel, content, f))

View ==
    \E ctx \in Contexts :
        /\ cog_check(ctx)
        /\ Done("view", ctx, PyNone, PyNone, PyNone, view(store, ctx))

Remove ==
    \E ctx \in Contexts :
        /\ cog_check(ctx)
        /\ Done("remove", ctx, PyNone, PyNone, PyNone, remove(store, ctx))

\* a command of the group by an author cog_check turns away
CheckFails ==
    \E ctx \in Contexts, name \in {"add", "edit", "view", "remove"} :
        /\ ~cog_check(ctx)
        /\ Done(name, ctx, PyNone, PyNone, PyNone,
                Raised(store, ctx, "MissingPermissions", 0, NoRow))

\* a member joins a guild of the bot
OnMemberJoin ==
    \E member \in {Ann, Bob, Cyd} :
        /\ member.guild.id \in GuildIds
        /\ Done("on_member_join", Context(member, PyNone, PyNone, FALSE),
                PyNone, PyNone, PyNone, on_member_join(store, member))

\* an invocation the framework rejects: on_command_error gets its error
CommandFails ==
    \E ctx \in Contexts, error \in FrameworkErrors :
        /\ ~isinstance(error, {"CommandInvokeError"})
        /\ Done("none", ctx, PyNone, PyNone, PyNone,
                Raised(store, ctx, error, 0, NoRow))

Next == Add \/ Edit \/ View \/ Remove \/ CheckFails \/ OnMemberJoin \/ CommandFails

Spec == Init /\ [][Next]_vars

\* the last invocation was a command of the given names that sent its card
Sent(names) == cmd.name \in names /\ reply.kind = "send"

\* the guild's row after the last invocation
StoredRow == fetchone(store, cmd.ctx.guild.id)

\* C5: after a successful edit every field the operator did not specify
\* keeps its stored value: with no flag string the stored card is the card
\* stored before the edit (cmd.row, the row the edit fetched), and with no
\* content the stored content is the content stored before.
C5_EditKeepsUnspecified ==
    Sent({"edit"}) =>
        /\ cmd.flags.t = "none" => StoredRow.embed = cmd.row.embed
        /\ cmd.content.t = "none" => StoredRow.content = cmd.row.content

\* the card json.loads and Embed.from_dict give back for a stored row
StoredCard(row) == from_dict(json_loads(row.embed.s))

\* C6: in every rendered card, the one create returns (sent by add and edit)
\* and the one sent on a member join or by view, url and color are the
\* descriptor's: the parsed url and color for create, the stored card's url
\* and color for a join or view.
C6_UrlAndColorPassThrough ==
    /\ Sent({"add", "edit"}) =>
          /\ reply.embed.url = init_builder(cmd.flags).self["url"]
          /\ reply.embed.colour = init_builder(cmd.flags).self["color"]
    /\ Sent({"view", "on_member_join"}) =>
          /\ reply.embed.url = StoredCard(cmd.row).url
          /\ reply.embed.colour = StoredCard(cmd.row).colour

\* the flag strings of the commands on which Builder(flags) raises
FailingFlags == {f \in FlagArgs : init_builder(f).raised # "none"}

\* the invocation gets as far as Builder(flags): the channel is one of the
\* guild's and, for edit, the guild has a row
ReachesParse(name, ctx, channel, st) ==
    /\ in_guild(ctx, channel)
    /\ name = "edit" => Truthy(fetchone(st, ctx.guild.id))

\* the reply is the alert that reports the ValueError to the invoking
\* channel
Reported(ctx, rep) ==
    rep.kind = "alert" /\ rep.error = "ValueError" /\ rep.channel = ctx.channel.id

\* C10: an add or edit whose flag string fails to parse (a malformed segment
\* or an invalid color) leaves the table exactly as it was, and when the
\* command got as far as the parse the ValueError is raised and reported by
\* an alert in the invoking channel.
C10_ParseFailureAllOrNothing ==
    [][(cmd'.name \in {"add", "edit"} /\ cmd'.flags \in FailingFlags) =>
           /\ store' = store
           /\ ReachesParse(cmd'.name, cmd'.ctx, cmd'.channel, store) =>
                 raised'.type = "ValueError" /\ Reported(cmd'.ctx, reply')]_vars

C10_Witness ==
    /\ cmd.name = "edit"
    /\ cmd.flags = PyStr(Chars("{title: T}$v{color: zz}"))
    /\ raised = [type |-> "ValueError", at |-> 2]
    /\ Reported(cmd.ctx, reply)
    /\ cmd.row.t = "row"
    /\ StoredRow = cmd.row

(***************************************************************************)
(* The order of the table: replace_placeholders visits mappings.items() in *)
(* the dict's order, which is the order its entries were inserted in. The  *)
(* same entries are handed over in other orders.                           *)
(***************************************************************************)
\* the longest text of the ordered substitution, in pieces of OrderPieces
MaxOrderPieces == 3

GuildOdd == Guild(3, Chars("Odd"), PyNone, 4, 1, 1)

\* a member whose display name is a token
Eve == Member(9, Chars("eve"), Chars("{guild.id}"), PyNone, Chars("e.png"), 5, 3, GuildOdd)

\* a member whose name completes the token {user.id}
Ida == Member(6, Chars("id"), Chars("Ida"), PyNone, Chars("e.png"), 5, 3, GuildOdd)

OrderPieces ==
    {Chars("{user.name}"), Chars("{user.display}"), Chars("{guild.id}"),
     Chars("{level}"), Chars("{user."), Chars("}")}

OrderTables ==
    {mapping(Ann, PyNone, PyNone, PyNone), mapping(Eve, PyNone, PyNone, PyNone),
     mapping(Ida, PyNone, PyNone, PyNone), mapping(PyNone, PyNone, PyInt(5), PyNone)}

\* the order that visits the i-th entry first and the others as they come
MoveToFront(n, i) ==
    [j \in 1..n |-> IF j = 1 THEN i ELSE IF j <= i THEN j - 1 ELSE j]

\* the order that visits the entries last to first
Reversed(n) == [j \in 1..n |-> n + 1 - j]

\* the orders the entries of a table of n entries are visited in
Orders(n) == {Reversed(n)} \cup {MoveToFront(n, i) : i \in 1..n}

\* the dict of the same entries inserted in the order p
Reordered(table, p) == [j \in 1..Len(table) |-> table[p[j]]]

InitOrder ==
    /\ pc = "start"
    /\ text \in {PyStr(s) : s \in PieceStrings(OrderPieces, MaxOrderPieces)}
    /\ mappings \in OrderTables
    /\ args \in {[order |-> p] : p \in Orders(Len(mappings))}
    /\ result = Nil
    /\ flags = Nil /\ builder = Nil /\ raised = Nil
    /\ store = Nil /\ cmd = Nil /\ reply = Nil

\* Builder().replace_placeholders(text, the entries of mappings in the order)
BuilderReplaceOrdered ==
    /\ pc = "start"
    /\ result' = replace_placeholders(text, Reordered(mappings, args.order))
    /\ pc' = "replaced"
    /\ UNCHANGED <<flags, builder, raised, text, mappings, args, store, cmd, reply>>

NextOrder == BuilderReplaceOrdered

SpecOrder == InitOrder /\ [][NextOrder]_vars

\* C11 as stated: for every text and every table built by mapping, whatever
\* strings the names are, every order of visiting the entries returns the
\* string that the table's own order returns.
C11_AnyOrderSameResult ==
    pc = "replaced" => result = replace_placeholders(text, mappings)

HasBrace(s) == \E i \in 1..Len(s) : s[i] \in Braces

\* no value that is substituted holds a brace
ValuesBraceFree(table) ==
    \A i \in 1..Len(table) : Truthy(table[i].v) => ~HasBrace(str(table[i].v))

RECURSIVE MaskTokens(_, _, _)
\* the text with every occurrence of a token of the table, from the i-th
\* entry on, made one opaque character
MaskTokens(txt, table, i) ==
    IF i > Len(table) THEN txt
    ELSE MaskTokens(replace(txt, table[i].k, Mark), table, i + 1)

\* every brace of the text is the brace of a whole token of the table
BracesInTokensOnly(txt, table) == ~HasBrace(MaskTokens(txt, table, 1))

\* C11: when no substituted value holds a brace and every brace of the text
\* belongs to a whole token of the table, every order of visiting the entries
\* returns the string that the table's own order returns.
C11_OrderImmaterialForPlainValues ==
    (/\ pc = "replaced"
     /\ ValuesBraceFree(mappings)
     /\ BracesInTokensOnly(text.s, mappings)) =>
        result = replace_placeholders(text, mappings)

C11_Witness ==
    /\ pc = "replaced"
    /\ mappings = mapping(Ann, PyNone, PyNone, PyNone)
    /\ args.order = Reversed(14)
    /\ text = PyStr(Chars("{guild.id}{user.name}{guild.id}"))
    /\ result = PyStr(Chars("1ann1"))

\* the rows of the table that a guild has
RowsOf(g) == {i \in 1..Len(store) : store[i].guild = g}

\* C12: after any sequence of commands each guild has at most one row in the
\* table, and after an add that sent its card the guild's row has the
\* channel and content of that add and the card of its flags, whatever row
\* the guild had before.
C12_OneRecordPerGuild ==
    /\ \A g \in GuildIds : Cardinality(RowsOf(g)) <= 1
    /\ Sent({"add"}) =>
          /\ Cardinality(RowsOf(cmd.ctx.guild.id)) = 1
          /\ StoredRow = Row(cmd.channel.id, cmd.content,
                             embed_json(init_builder(cmd.flags).self))

\* a second add of a guild, after one with another content and card
C12_Witness ==
    /\ Sent({"add"})
    /\ Len(store) = 2
    /\ store[2].guild = GuildDev.id
    /\ cmd.content = PyNone
    /\ cmd.flags = PyNone
    /\ StoredRow = Row(11, PyNone, PyStr(Chars("{\"type\": \"rich\"}")))

\* the text with the tokens the commands' inputs use replaced with the
\* member's name and id and the name of the member's guild
Resolved(txt, member) ==
    replace(replace(replace(txt, Chars("{user.name}"), member.name),
                    Chars("{user.id}"), str_int(member.id)),
            Chars("{guild.name}"), member.guild.name)

\* the value, resolved for the member when it is a string
ResolvedValue(x, member) == IF x.t = "str" THEN PyStr(Resolved(x.s, member)) ELSE x

\* the message is the row's content and title resolved for the member
DeliveredFor(rep, row, member) ==
    /\ rep.channel = row.channel
    /\ rep.content = ResolvedValue(row.content, member)
    /\ rep.embed.title = ResolvedValue(StoredCard(row).title, member)

\* C13: the row an add or edit stores holds the content and the card's title
\* as the operator wrote them, tokens unreplaced, and the message sent on a
\* member's join is the row's content and title with the tokens replaced
\* with the name and id of the joining member and the name of their guild.
C13_ResolvedAtDelivery ==
    /\ Sent({"add"}) => StoredRow.content = cmd.content
    /\ Sent({"edit"}) => StoredRow.content = or(cmd.content, cmd.row.content)
    /\ Sent({"add", "edit"}) =>
          StoredCard(StoredRow).title = init_builder(cmd.flags).self["title"]
    /\ (cmd.name = "on_member_join" /\ reply.kind = "send") =>
          DeliveredFor(reply, cmd.row, cmd.ctx.author)

\* a member who ran no command joins the guild whose row another wrote
C13_Witness ==
    /\ cmd.name = "on_member_join"
    /\ cmd.ctx.author = Cyd
    /\ reply.kind = "send"
    /\ cmd.row.content = PyStr(Chars("hi {user.name} of {guild.name}"))
    /\ StoredCard(cmd.row).title = PyStr(Chars("Hi {user.name}!"))
    /\ StoredRow = cmd.row
    /\ reply.channel = 11
    /\ reply.content = PyStr(Chars("hi cyd of Dev"))
    /\ reply.embed.title = PyStr(Chars("Hi cyd!"))

\* C14: Builder(flags) with flags None or the empty string raises nothing
\* and returns an instance whose eight attributes are all None.
C14_EmptyFlagsAllUnset ==
    (pc = "constructed" /\ flags \in {PyNone, PyStr(<<>>)}) =>
        /\ raised.type = "none"
        /\ \A f \in Fields : result[f] = PyNone

C14_Witness ==
    /\ pc = "constructed"
    /\ flags = PyStr(<<>>)
    /\ raised.type = "none"
    /\ \A f \in Fields : result[f] = PyNone

\* the key of the n-th segment names the field: trimmed and lower-cased it
\* is the field's name between braces, if any
Names(n, f) == BracedName(lower(strip(RawKey(n))), FieldKey[f])

\* every segment of the flag string is the marker or has a ':' and a key
\* that names no field
OnlyUnknownKeys ==
    \A n \in 1..Len(Segments) :
        \/ is_embed_marker(Segments[n])
        \/ HasColon(Segments[n]) /\ \A f \in Fields : ~Names(n, f)

\* C15: after a parse that raised nothing, every field that no segment's key
\* names is None and no more fields are set than there are segments with a
\* key; a flag string whose segments all have keys that name no field raises
\* nothing and sets no field.
C15_OnlyNamedFieldsSet ==
    ParseRan =>
        /\ raised.type = "none" =>
              /\ \A f \in Fields :
                    (\A n \in KeyedSegments : ~Names(n, f)) => builder[f] = PyNone
              /\ Cardinality({f \in Fields : builder[f] # PyNone})
                    <= Cardinality(KeyedSegments)
        /\ OnlyUnknownKeys => raised.type = "none" /\ builder = NewBuilder

\* a segment with an unknown (empty) key before one that names title
C15_Witness ==
    /\ pc = "parsed"
    /\ flags = PyStr(Chars(":$vtitle:"))
    /\ raised.type = "none"
    /\ builder = [NewBuilder EXCEPT !["title"] = PyStr(<<>>)]

\* the last segment whose key names the field f
LastNaming(f) ==
    CHOOSE n \in KeyedSegments :
        Names(n, f) /\ \A m \in KeyedSegments : Names(m, f) => m <= n

\* the text up to its last character that is not '}'
WithoutTrailingBraces(t) ==
    SubSeq(t, 1, CHOOSE k \in 0..Len(t) :
                     /\ k = 0 \/ t[k] # "}"
                     /\ \A m \in (k + 1)..Len(t) : t[m] = "}")

\* C16: after a parse that raised nothing, a text field that one or more
\* segments name holds the value of the last of them in left-to-right order,
\* trimmed and without its trailing braces.
C16_LastWriteWins ==
    ParseRan /\ raised.type = "none" =>
        \A f \in TextFields :
            (\E n \in KeyedSegments : Names(n, f)) =>
                builder[f] = PyStr(WithoutTrailingBraces(strip(RawValue(LastNaming(f)))))

\* title is named twice, the second time with an empty value
C16_Witness ==
    /\ pc = "parsed"
    /\ flags = PyStr(Chars("{title: Hey}$vtitle:"))
    /\ raised.type = "none"
    /\ builder["title"] = PyStr(<<>>)

\* the segment, trimmed of whitespace and lower-cased, is {embed}
IsMarker(seg) == lower(strip(seg)) = Chars("{embed}")

RECURSIVE NonMarkers(_)
\* the segments that are not markers, in their order
NonMarkers(segs) ==
    IF segs = <<>> THEN <<>>
    ELSE IF IsMarker(Head(segs)) THEN NonMarkers(Tail(segs))
    ELSE <<Head(segs)>> \o NonMarkers(Tail(segs))

\* what the loop of parse does with the segments that are not markers
SansMarkers == parse_from(NewBuilder, NonMarkers(Segments), 1)

\* C17: the marker segments change no field and cause no error: parse leaves
\* the fields, and raises or not, as it does for the same segments without
\* the markers, wherever the markers are and however many.
C17_MarkerSkipped ==
    ParseRan =>
        /\ builder = SansMarkers.self
        /\ raised.type = SansMarkers.raised

C17_Witness ==
    /\ pc = "parsed"
    /\ flags = PyStr(Chars("{embed}$v{title: Hey}"))
    /\ raised.type = "none"
    /\ builder = [NewBuilder EXCEPT !["title"] = PyStr(Chars("Hey"))]

(***************************************************************************)
(* The substitution of nested values: replace_placeholders is called with  *)
(* dicts and lists of strings and other scalars, as json.loads gives them. *)
(***************************************************************************)
\* the longest list of the nested values
MaxItems == 2

Leaves == {PyStr(Chars("{level}")), PyStr(Chars("{level.previous}")), PyInt(7), PyNone}

\* the lists of at most MaxItems leaves
FlatLists ==
    {PyList(<<>>)}
    \cup UNION {{PyList([j \in 1..n |-> Item(<<>>, v[j])]) : v \in [1..n -> Leaves]} :
                   n \in 1..MaxItems}

\* the dicts of leaves under the keys a and {level}, a key that is a token
FlatDicts ==
    {PyDict(<<>>)}
    \cup {PyDict(<<Item(k, x)>>) : k \in {Chars("a"), Chars("{level}")}, x \in Leaves}
    \cup {PyDict(<<Item(Chars("a"), x), Item(Chars("{level}"), y)>>) :
             x \in Leaves, y \in Leaves}

\* a dict of a leaf or list and a leaf or dict, a list of a dict and a list
NestedValues ==
    Leaves \cup FlatLists \cup FlatDicts
    \cup {PyDict(<<Item(Chars("a"), x), Item(Chars("b"), y)>>) :
             x \in Leaves \cup FlatDicts, y \in Leaves \cup FlatLists}
    \cup {PyList(<<Item(<<>>, x), Item(<<>>, y)>>) : x \in FlatDicts, y \in FlatLists}

NestedTables ==
    {mapping(PyNone, PyNone, PyInt(5), PyNone), mapping(PyNone, PyNone, PyNone, PyInt(1))}

InitNested ==
    /\ pc = "start"
    /\ text \in NestedValues
    /\ mappings \in NestedTables
    /\ result = Nil
    /\ flags = Nil /\ builder = Nil /\ raised = Nil /\ args = Nil
    /\ store = Nil /\ cmd = Nil /\ reply = Nil

SpecNested == InitNested /\ [][NextReplace]_vars

RECURSIVE SameShape(_, _, _)
\* y has the shape of x: the same kind of value, for a dict the same keys in
\* the same places, for a list the same length, every string leaf the
\* substitution of the leaf of x in its place and every other leaf the same
SameShape(x, y, table) ==
    /\ y.t = x.t
    /\ CASE x.t = "str" -> y.s = replace_str(x.s, table, 1)
         [] x.t \in {"dict", "list"} ->
               /\ Len(y.items) = Len(x.items)
               /\ \A j \in 1..Len(x.items) :
                     /\ y.items[j].k = x.items[j].k
                     /\ SameShape(x.items[j].v, y.items[j].v, table)
         [] OTHER -> y = x

\* C18: replace_placeholders returns a value of the shape of its argument:
\* every dict with its keys unmodified, every list with its length and order,
\* every scalar that is not a string unchanged, and every string leaf
\* substituted.
C18_ShapePreserved ==
    pc = "replaced" => SameShape(text, result, mappings)

\* {a: "{level}", b: ["{level.previous}"]} with level 5
C18_Witness ==
    /\ pc = "replaced"
    /\ mappings = mapping(PyNone, PyNone, PyInt(5), PyNone)
    /\ text = PyDict(<<Item(Chars("a"), PyStr(Chars("{level}"))),
                       Item(Chars("b"),
                            PyList(<<Item(<<>>, PyStr(Chars("{level.previous}")))>>))>>)
    /\ result = PyDict(<<Item(Chars("a"), PyStr(Chars("5"))),
                         Item(Chars("b"), PyList(<<Item(<<>>, PyStr(Chars("4")))>>))>>)

\* C20: after a call of parse that raises, no attribute of the Builder it was
\* called on differs from its value before the call (here a fresh instance,
\* every attribute None).
C20_FailingParseAtomic ==
    (pc = "parsed" /\ raised.type = "ValueError") => builder = NewBuilder

\* C23: a call of parse that does not raise returns the Builder it was called
\* on, with the attributes the call assigned, so that create can be called on
\* what it returns.
C23_ParseReturnsSelf ==
    (pc = "parsed" /\ raised.type = "none") => result = builder

(***************************************************************************)
(* The substitution applied twice: the result of replace_placeholders is   *)
(* handed to it again with the same table.                                 *)
(***************************************************************************)
InitTwice ==
    /\ pc = "start"
    /\ \/ text \in NestedValues /\ mappings \in NestedTables
       \/ /\ text \in {PyStr(s) : s \in PieceStrings(OrderPieces, MaxOrderPieces)}
          /\ mappings \in OrderTables
    /\ result = Nil /\ args = Nil
    /\ flags = Nil /\ builder = Nil /\ raised = Nil
    /\ store = Nil /\ cmd = Nil /\ reply = Nil

\* Builder().replace_placeholders(result, mappings), result being what the
\* first call returned
BuilderReplaceAgain ==
    /\ pc = "replaced"
    /\ args' = replace_placeholders(result, mappings)
    /\ pc' = "replaced again"
    /\ UNCHANGED <<flags, builder, raised, result, text, mappings, store, cmd, reply>>

NextTwice == BuilderReplace \/ BuilderReplaceAgain

SpecTwice == InitTwice /\ [][NextTwice]_vars

RECURSIVE TokenFree(_, _)
\* no string of the value holds an occurrence of a token of the table
TokenFree(x, table) ==
    CASE x.t = "str" -> \A i \in 1..Len(table) : ~Occurs(x.s, table[i].k)
      [] x.t \in {"dict", "list"} ->
            \A j \in 1..Len(x.items) : TokenFree(x.items[j].v, table)
      [] OTHER -> TRUE

\* C19: when what replace_placeholders returned holds no occurrence of a
\* token of the table, replace_placeholders of it with the same table returns
\* the same value.
C19_Idempotent ==
    (pc = "replaced again" /\ TokenFree(result, mappings)) => args = result

C19_Witness ==
    /\ pc = "replaced again"
    /\ mappings = mapping(PyNone, PyNone, PyInt(5), PyNone)
    /\ text = PyList(<<Item(<<>>, PyDict(<<Item(Chars("{level}"), PyStr(Chars("{level}")))>>)),
                       Item(<<>>, PyList(<<Item(<<>>, PyStr(Chars("{level.previous}"))),
                                           Item(<<>>, PyInt(7))>>))>>)
    /\ TokenFree(result, mappings)
    /\ result # text
    /\ args = result

(***************************************************************************)
(* The running bot: setup_hook loads its extensions, each of which adds    *)
(* its cog, and a member event is dispatched to the listeners of the cogs  *)
(* that were added. The two tables are files that outlive a run, so a run  *)
(* starts with whatever rows an earlier run left in them.                  *)
(***************************************************************************)
\* bot.py 78-81: the features setup_hook loads
Features == {"information", "welcome"}

\* the cog the setup() of an extension adds, under the extension's name
Cogs == {"information", "welcome", "goodbye"}

\* the @Cog.listener() methods of a cog
Listeners(cog) ==
    CASE cog = "welcome" -> {"on_member_join"}
      [] cog = "goodbye" -> {"on_member_remove"}
      [] OTHER -> {}

\* Goodbye.on_member_remove(member): the code of on_member_join over the
\* goodbyes table
on_member_remove(st, member) ==
    IF Truthy(fetchone(st, member.guild.id))
    THEN Returned(st,
                  rendered(fetchone(st, member.guild.id).channel, fetchone(st, member.guild.id),
                           mapping(member, PyNone, PyNone, PyNone)),
                  fetchone(st, member.guild.id))
    ELSE Returned(st, NoReply, NoRow)

\* the dispatch of a member event to the cogs that were added: the outcome
\* of the listener when a cog with one is loaded, nothing otherwise
dispatch(loaded, event, st, member) ==
    IF \E cog \in loaded : event \in Listeners(cog)
    THEN IF event = "on_member_join" THEN on_member_join(st.welcomes, member)
         ELSE on_member_remove(st.goodbyes, member)
    ELSE Returned(st, NoReply, NoRow)

\* rows an earlier run stored
KeptRows ==
    {Row(11, PyStr(Chars("bye {user.name}")), embed_json(NewBuilder)),
     Row(21, PyNone, embed_json(init_builder(PyStr(Chars("{title: {user.name} of {guild.name}}"))).self))}

\* the tables an earlier run left: no row, or one row for some of the guilds
KeptTables ==
    {<<>>}
        \cup {<<[guild |-> g, row |-> r]>> : g \in GuildIds, r \in KeptRows}
        \cup {<<[guild |-> GuildDev.id, row |-> r], [guild |-> GuildLab.id, row |-> q]>> :
                 r \in KeptRows, q \in KeptRows}

InitBot ==
    /\ pc = "start"
    /\ args = {}
    /\ store \in [welcomes : KeptTables, goodbyes : KeptTables]
    /\ cmd = [name |-> "none", member |-> PyNone, row |-> NoRow]
    /\ reply = NoReply
    /\ raised = NoError
    /\ flags = Nil /\ builder = Nil /\ result = Nil
    /\ text = Nil /\ mappings = Nil

\* Template.setup_hook(): every feature is loaded, then the bot runs
SetupHook ==
    /\ pc = "start"
    /\ args' = args \cup (Features \cap Cogs)
    /\ pc' = "running"
    /\ UNCHANGED <<flags, builder, raised, result, text, mappings, store, cmd, reply>>

\* a member event of the running bot
MemberEvent(event, member) ==
    /\ pc = "running"
    /\ LET outcome == dispatch(args, event, store, member)
       IN /\ reply' = outcome.reply
          /\ cmd' = [name |-> event, member |-> member, row |-> outcome.row]
    /\ UNCHANGED <<pc, flags, builder, raised, result, text, mappings, args, store>>

\* a member joins a guild of the bot
MemberJoins ==
    \E member \in {Ann, Bob, Cyd} :
        /\ member.guild.id \in GuildIds
        /\ MemberEvent("on_member_join", member)

\* a member leaves a guild of the bot
MemberLeaves ==
    \E member \in {Ann, Bob, Cyd} :
        /\ member.guild.id \in GuildIds
        /\ MemberEvent("on_member_remove", member)

NextBot == SetupHook \/ MemberJoins \/ MemberLeaves

SpecBot == InitBot /\ [][NextBot]_vars

\* C21: when a member has left a guild for which a goodbye record is stored,
\* the running bot has sent the record's content and card, resolved for that
\* member, to the record's channel.
C21_GoodbyeSent ==
    (cmd.name = "on_member_remove"
        /\ Truthy(fetchone(store.goodbyes, cmd.member.guild.id)))
    => reply = on_member_remove(store.goodbyes, cmd.member).reply

(***************************************************************************)
(* Properties of the welcome group over sequences of commands and joins.   *)
(***************************************************************************)
\* the guild has a row in the table
HasRecord(st, g) == Truthy(fetchone(st, g))

\* C22: after any sequence of commands, a member joining guild g gets one
\* message, sent to the channel of g's row, when g has a row and none when it
\* has not; a remove that ran leaves g without a row, and only an add that
\* sent its card gives a guild without a row one.
C22_JoinFollowsRecord ==
    /\ [](cmd.name = "on_member_join" =>
            IF HasRecord(store, cmd.ctx.guild.id)
            THEN reply.kind = "send"
                 /\ reply.channel = fetchone(store, cmd.ctx.guild.id).channel
            ELSE reply = NoReply)
    /\ [][/\ (cmd'.name = "remove" /\ raised'.type = "none")
                => ~HasRecord(store', cmd'.ctx.guild.id)
          /\ \A g \in GuildIds :
                (~HasRecord(store, g) /\ HasRecord(store', g))
                    => cmd'.name = "add" /\ reply'.kind = "send" /\ cmd'.ctx.guild.id = g]_vars

C22_Witness ==
    /\ cmd.name = "on_member_join"
    /\ cmd.ctx.author = Cyd
    /\ reply.kind = "send"
    /\ reply.channel = 11
    /\ HasRecord(store, GuildLab.id)
    /\ Len(store) = 2

\* C24: after an add invoked without a channel argument (by a permitted
\* author, with flags that parse) the guild's row holds the id of the channel
\* the command was invoked in.
C24_AddDefaultsToInvokingChannel ==
    (/\ cmd.name = "add"
     /\ cmd.channel = PyNone
     /\ raised.type # "MissingPermissions"
     /\ cmd.flags \notin FailingFlags)
    => /\ StoredRow.t = "row"
       /\ StoredRow.channel = cmd.ctx.channel.id

\* C25: on_command_error sends nothing for a CommandNotFound, the cooldown
\* denial for a CommandOnCooldown, and an alert for every other error of the
\* commands here (none of them a missing-argument error).
C25_UnknownCommandSilent ==
    raised.type # "none" =>
        CASE raised.type = "CommandNotFound" -> reply = NoReply
          [] raised.type = "CommandOnCooldown" -> reply.kind = "deny"
          [] OTHER -> reply.kind = "alert" /\ reply.error = raised.type

(***************************************************************************)
(* The precedence of the context variants in mapping.                      *)
(***************************************************************************)
\* the argument was passed: it is not None
Supplied(x) == x.t # "none"

\* the table of the first variant supplied, in the order user, level, xp,
\* message, and the empty table when none is
FirstSupplied(user, message, level, xp) ==
    IF Supplied(user) THEN user_mapping(user)
    ELSE IF Supplied(level) THEN level_mapping(level.n)
    ELSE IF Supplied(xp) THEN xp_mapping(xp.n)
    ELSE IF Supplied(message) THEN message_mapping(message)
    ELSE <<>>

\* C26: the table mapping returns is the table of exactly one variant, the
\* first supplied in the order user, level, xp, message, never a merge of two,
\* and it is empty when no variant is supplied.
C26_FixedPrecedence ==
    pc = "mapped" =>
        mappings = FirstSupplied(args.user, args.message, args.level, args.xp)

\* an edit by a permitted author on a guild without a row
EditWithoutRecord ==
    /\ cmd'.name = "edit"
    /\ raised'.type # "MissingPermissions"
    /\ ~HasRecord(store, cmd'.ctx.guild.id)

\* C28: an edit on a guild without a row replies with the denial, leaves the
\* table as it was and does not parse the flag string (no ValueError,
\* whatever the flags).
C28_EditWithoutRecordDenied ==
    [][EditWithoutRecord =>
           /\ store' = store
           /\ raised'.type # "ValueError"
           /\ reply'.kind = "deny"]_vars

(***************************************************************************)
(* The paginator: a message that shows one of the embeds it was given,     *)
(* with a left, a stop and a right button. Each press of a button is an    *)
(* interaction, by the author of the command or by anyone else.            *)
(***************************************************************************)
MaxEmbeds == 3

\* an embed of the list, with the footer update_embed sets on it
Page(title, footer) == [title |-> title, footer |-> footer]

\* the embeds ctx.paginate is called with: n pages without a footer
Pages(n) == [k \in 1..n |-> Page(k, PyNone)]

\* Paginator.__init__(ctx, embeds), lines 62-64
Paginator(ctx, embeds) == [ctx |-> ctx, embeds |-> embeds, current_page |-> 0]

\* the message on display: the embed it shows and whether the buttons are
\* attached; ctx.paginate sends embeds[0] with the view
Shown(embed, attached) == [embed |-> embed, view |-> attached]

\* the outcome of a callback: the paginator, the message on display and the
\* response to the interaction
Pressed(self, message, response) ==
    [self |-> self, message |-> message, response |-> response]

NoResponse == [kind |-> "none", ephemeral |-> FALSE, user |-> 0]

\* interaction.response.send_message(embed=..., ephemeral=True): the warning
\* that mentions interaction.user, seen by that user only
warning(interaction) ==
    [kind |-> "send_message", ephemeral |-> TRUE, user |-> interaction.user.id]

\* interaction.response.edit_message(...)
edited(interaction) ==
    [kind |-> "edit_message", ephemeral |-> FALSE, user |-> interaction.user.id]

\* the callback raised: the interaction gets no response
failed(interaction, type) == [kind |-> type, ephemeral |-> FALSE, user |-> interaction.user.id]

\* lines 96, 116, 136 with the test left out: nobody is turned away
is_other_user_never(self, interaction) == FALSE

\* lines 96, 116, 136: interaction.user != self.ctx.author
is_other_user(self, interaction) == interaction.user # self.ctx.author

\* "Page k/n", the footer text of line 157
page_footer(self) ==
    PyStr(Chars("Page ") \o str_int(self.current_page + 1) \o Chars("/")
          \o str_int(Len(self.embeds)))

\* Paginator.update_embed(interaction): the footer is set on the embed of
\* the list, and the message is edited to show it; the bot user's avatar is
\* None for a bot without one, and .url of it raises AttributeError
update_embed(self, message, interaction) ==
    IF self.ctx.bot.user.avatar.t = "none"
    THEN Pressed(self, message, failed(interaction, "AttributeError"))
    ELSE LET embed == [self.embeds[self.current_page + 1] EXCEPT !.footer = page_footer(self)]
         IN Pressed([self EXCEPT !.embeds[self.current_page + 1] = embed],
                    Shown(embed, TRUE), edited(interaction))

\* _left with line 105 as self.current_page - 1, without the modulo
_left_no_wrap(self, message, interaction) ==
    IF is_other_user(self, interaction)
    THEN Pressed(self, message, warning(interaction))
    ELSE IF self.current_page = 0
    THEN Pressed([self EXCEPT !.current_page = -1], message, edited(interaction))
    ELSE update_embed([self EXCEPT !.current_page = self.current_page - 1],
                      message, interaction)

\* Paginator._left(interaction)
_left(self, message, interaction) ==
    IF is_other_user(self, interaction)
    THEN Pressed(self, message, warning(interaction))
    ELSE update_embed(
             [self EXCEPT !.current_page = (self.current_page - 1) % Len(self.embeds)],
             message, interaction)

\* Paginator._right(interaction)
_right(self, message, interaction) ==
    IF is_other_user(self, interaction)
    THEN Pressed(self, message, warning(interaction))
    ELSE update_embed(
             [self EXCEPT !.current_page = (self.current_page + 1) % Len(self.embeds)],
             message, interaction)

\* Paginator._stop(interaction): the buttons are taken off the message
_stop(self, message, interaction) ==
    IF is_other_user(self, interaction)
    THEN Pressed(self, message, warning(interaction))
    ELSE Pressed(self, Shown(message.embed, FALSE), edited(interaction))

\* the context of the command that paginates: its author and the bot
PageContext(author, avatar) ==
    [author |-> author, bot |-> [user |-> [avatar |-> avatar]]]

Interaction(user) == [user |-> user]

\* an interaction that has not happened
NoPress == [user |-> PyNone, button |-> "none", page |-> 0, message |-> PyNone]

\* ctx.paginate(embeds), context.py 339-340: the paginator is built and the
\* first embed is sent with it. text is the message on display, cmd the last
\* interaction with the page and the message it found, args the one before
InitPages ==
    /\ pc = "paginating"
    /\ \E author \in {Ann, Bob}, avatar \in {PyNone, PyStr(Chars("bot.png"))},
          n \in 1..MaxEmbeds :
          /\ result = Paginator(PageContext(author, avatar), Pages(n))
          /\ text = Shown(Pages(n)[1], TRUE)
    /\ cmd = NoPress
    /\ args = NoPress
    /\ reply = NoResponse
    /\ flags = Nil /\ builder = Nil /\ raised = Nil
    /\ mappings = Nil /\ store = Nil

\* a button was pressed and its callback ran
Press(user, button, outcome) ==
    /\ result' = outcome.self
    /\ text' = outcome.message
    /\ reply' = outcome.response
    /\ cmd' = [user |-> user, button |-> button, page |-> result.current_page,
               message |-> text]
    /\ args' = cmd
    /\ UNCHANGED <<pc, flags, builder, raised, mappings, store>>

Left ==
    \E user \in {Ann, Bob} :
        /\ pc = "paginating"
        /\ Press(user, "left", _left(result, text, Interaction(user)))

Right ==
    \E user \in {Ann, Bob} :
        /\ pc = "paginating"
        /\ Press(user, "right", _right(result, text, Interaction(user)))

Stop ==
    \E user \in {Ann, Bob} :
        /\ pc = "paginating"
        /\ Press(user, "stop", _stop(result, text, Interaction(user)))

NextPages == Left \/ Right \/ Stop

SpecPages == InitPages /\ [][NextPages]_vars

\* the interaction was the author's
ByOwner(press) == press.user = result.ctx.author

\* C29: over n >= 1 embeds, after any sequence of left, right and stop
\* interactions 0 <= current_page < n; the author's right from the last page
\* gives page 0, the author's left from page 0 the last page, and the
\* author's left followed by the author's right the page before the two.
C29_PageInRange ==
    pc = "paginating" =>
        /\ result.current_page \in 0..(Len(result.embeds) - 1)
        /\ (cmd.button = "right" /\ ByOwner(cmd) /\ cmd.page = Len(result.embeds) - 1)
              => result.current_page = 0
        /\ (cmd.button = "left" /\ ByOwner(cmd) /\ cmd.page = 0)
              => result.current_page = Len(result.embeds) - 1
        /\ (/\ args.button = "left" /\ ByOwner(args)
            /\ cmd.button = "right" /\ ByOwner(cmd))
              => result.current_page = args.page

C29_Witness ==
    /\ pc = "paginating"
    /\ Len(result.embeds) = 3
    /\ args.button = "left" /\ ByOwner(args) /\ args.page = 0
    /\ cmd.button = "right" /\ ByOwner(cmd) /\ cmd.page = 2
    /\ result.current_page = 0
    /\ text.embed.footer = PyStr(Chars("Page 1/3"))

\* C30: a left, right or stop interaction by anyone but the author of the
\* command leaves current_page and the message on display as they were, and
\* its only response is the warning, ephemeral, to the user who pressed.
C30_OnlyOwnerControls ==
    (pc = "paginating" /\ cmd.button # "none" /\ ~ByOwner(cmd)) =>
        /\ result.current_page = cmd.page
        /\ text = cmd.message
        /\ reply = [kind |-> "send_message", ephemeral |-> TRUE, user |-> cmd.user.id]

C30_Witness ==
    /\ pc = "paginating"
    /\ result.ctx.author = Ann
    /\ cmd.user = Bob /\ cmd.button = "stop"
    /\ args.user = Ann /\ args.button = "right"
    /\ result.current_page = 1
    /\ text = Shown(Page(2, PyStr(Chars("Page 2/3"))), TRUE)
    /\ reply.kind = "send_message" /\ reply.ephemeral /\ reply.user = Bob.id

(***************************************************************************)
(* Handlers in flight together. The handlers are coroutines of one event   *)
(* loop: one runs until it awaits, then any other may run. All of them use *)
(* the one cursor of the class (welcome.py 33-37): execute replaces the    *)
(* cursor's pending rows, fetchone takes the first of them. Here cmd holds *)
(* the handlers in flight, result the cursor, args the handler that has    *)
(* the loop (0 for none) and the number of writes to the table so far.     *)
(***************************************************************************)
MaxTasks == 2

Tasks == 1..MaxTasks

Handlers == {"add", "edit", "view", "remove", "on_member_join"}

\* the first statement on the table of each handler, checks passed
first_step(name) ==
    CASE name \in {"edit", "view", "on_member_join"} -> "select"
      [] name = "add" -> "replace"
      [] OTHER -> "delete"

\* a handler with an await between cursor.execute and cursor.fetchone
suspends_at_fetch(name, at) == at \in {"fetch", "send", "done"}

\* the handler gives up the loop when it gets to this statement: the only
\* awaits after a handler's checks are the sends that end it (welcome.py
\* 169, 228, 256, 319, 326, 366, 417)
suspends(name, at) == at \in {"send", "done"}

\* a handler in flight: where it is, the row it fetched, and for the
\* properties the row its own SELECT matched and the number of writes there
\* had been when it ran
Task(name, guild, at, row, selected, seen) ==
    [name |-> name, guild |-> guild, at |-> at, row |-> row,
     selected |-> selected, seen |-> seen]

\* the cursor with the rows of the last statement still to be fetched
Cursor(row) == [row |-> row]

\* the row an add of task t stores, and the row an edit of task t stores
\* over the row it fetched (channel and embed omitted, so kept: lines
\* 246-248)
added_row(t) == Row(10 + t, PyStr(str_int(t)), PyStr(Chars("{}")))

edited_row(t, row) == Row(row.channel, PyStr(str_int(t)), row.embed)

TaskTables ==
    {<<>>,
     <<[guild |-> GuildDev.id, row |-> Row(11, PyStr(Chars("old")), PyStr(Chars("{}")))],
       [guild |-> GuildLab.id, row |-> Row(21, PyNone, PyStr(Chars("{}")))]>>}

InitTasks ==
    /\ pc = "serving"
    /\ store \in TaskTables
    /\ \E names \in [Tasks -> Handlers], guilds \in [Tasks -> GuildIds] :
          cmd = [t \in Tasks |->
                    Task(names[t], guilds[t], first_step(names[t]), NoRow, NoRow, 0)]
    /\ result = Cursor(NoRow)
    /\ args = [running |-> 0, writes |-> 0]
    /\ flags = Nil /\ builder = Nil /\ raised = Nil
    /\ text = Nil /\ mappings = Nil /\ reply = Nil

\* task t has the loop or may take it
MayRun(t) == args.running \in {0, t}

\* task t moved on to the statement at: it keeps the loop unless it awaits
\* there
Moved(t, task, wrote) ==
    /\ cmd' = [cmd EXCEPT ![t] = task]
    /\ args' = [running |-> IF suspends(task.name, task.at) THEN 0 ELSE t,
                writes |-> args.writes + (IF wrote THEN 1 ELSE 0)]
    /\ UNCHANGED <<pc, flags, builder, raised, text, mappings, reply>>

\* cursor.execute(SELECT ... WHERE guild = ?) and commit
Select ==
    \E t \in Tasks :
        /\ MayRun(t) /\ cmd[t].at = "select"
        /\ result' = Cursor(fetchone(store, cmd[t].guild))
        /\ store' = store
        /\ Moved(t, [cmd[t] EXCEPT !.at = "fetch",
                                   !.selected = fetchone(store, cmd[t].guild),
                                   !.seen = args.writes], FALSE)

\* row = cursor.fetchone(): the pending row is taken off the cursor. Without
\* a row edit and view go on to their denial and on_member_join ends
Fetch ==
    \E t \in Tasks :
        /\ MayRun(t) /\ cmd[t].at = "fetch"
        /\ result' = Cursor(NoRow)
        /\ store' = store
        /\ Moved(t, [cmd[t] EXCEPT
                        !.row = result.row,
                        !.at = IF cmd[t].name = "edit" /\ Truthy(result.row) THEN "replace"
                               ELSE IF cmd[t].name = "on_member_join" /\ ~Truthy(result.row)
                               THEN "done"
                               ELSE "send"], FALSE)

\* cursor.execute(REPLACE INTO ...) and commit, of add and of edit
Replace ==
    \E t \in Tasks :
        /\ MayRun(t) /\ cmd[t].at = "replace"
        /\ store' = replace_into(store, cmd[t].guild,
                                 IF cmd[t].name = "add" THEN added_row(t)
                                 ELSE edited_row(t, cmd[t].row))
        /\ result' = Cursor(NoRow)
        /\ Moved(t, [cmd[t] EXCEPT !.at = "send"], TRUE)

\* cursor.execute(DELETE FROM ...) and commit, of remove
Delete ==
    \E t \in Tasks :
        /\ MayRun(t) /\ cmd[t].at = "delete"
        /\ store' = delete_from(store, cmd[t].guild)
        /\ result' = Cursor(NoRow)
        /\ Moved(t, [cmd[t] EXCEPT !.at = "send"], TRUE)

\* the send the handler awaited is over and the handler returns
SendReturns ==
    \E t \in Tasks :
        /\ MayRun(t) /\ cmd[t].at = "send"
        /\ UNCHANGED <<store, result>>
        /\ Moved(t, [cmd[t] EXCEPT !.at = "done"], FALSE)

NextTasks == Select \/ Fetch \/ Replace \/ Delete \/ SendReturns

SpecTasks == InitTasks /\ [][NextTasks]_vars

\* task t has fetched
Fetched(t) ==
    /\ cmd[t].name \in {"edit", "view", "on_member_join"}
    /\ cmd[t].at \in {"replace", "send", "done"}

\* C27: in every interleaving of the handlers at their awaits, the row a
\* handler fetches is the row its own SELECT matched, and between the SELECT
\* of an edit and its REPLACE no other handler writes to the table.
C27_DatabaseStepsNotInterleaved ==
    pc = "serving" =>
        \A t \in Tasks :
            /\ Fetched(t) => cmd[t].row = cmd[t].selected
            /\ (cmd[t].name = "edit" /\ cmd[t].at = "replace")
                  => args.writes = cmd[t].seen

\* an edit and a join of the same guild both wait in their send: the edit
\* ran first, and the join fetched the row the edit wrote
C27_Witness ==
    /\ pc = "serving"
    /\ cmd[1].name = "edit" /\ cmd[1].at = "send" /\ cmd[1].guild = GuildDev.id
    /\ cmd[2].name = "on_member_join" /\ cmd[2].at = "send" /\ cmd[2].guild = GuildDev.id
    /\ cmd[1].row = Row(11, PyStr(Chars("old")), PyStr(Chars("{}")))
    /\ cmd[2].row = edited_row(1, cmd[1].row)
    /\ fetchone(store, GuildDev.id) = cmd[2].row

====
